---- MODULE Spec2Model ----
(***************************************************************************)
(* Model of the ekanite time-partitioned index engine.                     *)
(*                                                                         *)
(*   SpecPool    the open-partition pool (src/pool.go, resourceSemaphore), *)
(*               IndexLoader.Load (src/loader.go) and the child goroutines *)
(*               of MultiSearch (src/search.go), one step per critical     *)
(*               section of rs.mu.                                         *)
(*   SpecEngine  the partition registry (IndexLoader.allIndexes) and       *)
(*               Engine.Index driven by one batcher, started over a data   *)
(*               directory an earlier run may have filled.                 *)
(*                                                                         *)
(* Times are integer instants; a partition store handle (an Index) is an   *)
(* index into the table stores, 0 being the nil pointer.  A store that is  *)
(* closed and that no slot and no lease points to any more is garbage: its *)
(* handle is free again.                                                   *)
(***************************************************************************)
EXTENDS Integers, Sequences, FiniteSets, TLC

\* ---------------------------------------------------------------- bounds
\* il.numCaches defaults to 2 (IndexLoader.Open).
NumCaches == 2
\* descriptor ids the pool is asked for
NumIds == 3
\* goroutines that may run a child search at the same time
NumProcs == 3
\* MultiSearch calls (each brings its own context)
MaxSearches == 2
\* partition store objects alive at the same time (size of the table stores)
MaxOpens == 4
\* Close calls counted per store (the count saturates here)
CloseCap == 2

\* reference times of events are 0..MaxTime
MaxTime == 2
\* the two values e.IndexDuration is configured with
ShortDuration == 1
LongDuration == 3
\* events in one batch
MaxBatch == 2
\* Engine.Index calls
MaxCalls == 2
\* goroutines of one Engine.Index call in which an operation fails
MaxFailures == 2
\* e.RetentionPeriod, the readings of time.Now() (0..MaxNow) and the sweeps made
RetentionPeriod == 1
MaxNow == 5
MaxSweeps == 2
\* Partitions searched by one MultiSearch, matches stored per partition, scores.
NumParts == 2
MaxHits == 2
MaxScore == 2
\* Largest From and Size of a search request.
MaxFrom == 2
MaxSize == 2
\* Largest step of a group-by over reception time.
MaxStep == 2
\* The batcher: batch size, channel capacity, events produced, failing Index
\* calls, and the length to which a buffer that is never flushed may grow.
BatchSize == 2
MaxOutstanding == 2
MaxEvents == 3
MaxIndexErrors == 1
MaxBuffered == 5

Slots == 1..NumCaches
Handles == 1..MaxOpens
Ids == 1..NumIds
Procs == 1..NumProcs
Nil == 0
NoSlot == 0
Background == 0

VARIABLES
    \* resourceSemaphore
    isClosed,     \* rs.isClosed; rs.cond is closed exactly when it is TRUE
    resources,    \* rs.resources: slot -> [id, refCounter, index]
    stores,       \* the Index objects: handle -> [id, open, closes] (id 0: free)
    \* goroutines running searchChildIndex
    pc,           \* position of each goroutine
    want,         \* li.id the goroutine loads
    ctxOf,        \* the context the goroutine was given
    held,         \* the *resource TryAcquire returned to it (NoSlot: none)
    lease,        \* the *Index of the ResourceIndex Load returned (Nil: none)
    cancelErrs,   \* the errors returned by children that were waiting at the cancel
    wasWaiting,   \* the goroutine was waiting for a slot when its context was cancelled
    searchSeq,    \* MultiSearch calls made so far
    cancelled,    \* contexts whose Done channel is closed
    \* IndexLoader / Engine
    allIndexes,   \* loader.allIndexes: sequence of [id, startTime, endTime, isNew]
    idSeed,       \* loader.idSeed
    IndexDuration,\* e.IndexDuration
    dirs,         \* partition directories on disk: [startTime, endTime]
    docs,         \* documents in the stores: [startTime, endTime, t]
    lastest,      \* Continuation.lastest of the batcher: [r, index] or NoLease
    isNewUpdates, \* descriptors whose `li.isNew = false` goroutine has not run yet
    lastIndex,    \* the last Engine.Index call: [events, errs, sub, wrote]
    hung,         \* an Engine.Index call waits for a slot that nobody releases
    calls,        \* Engine.Index calls made
    lastSweep,    \* the last enforceRetention: [n, now, gone, failed]
    lastQuery,    \* the last call of a query operation: [op, ...] with its result
    batcher,      \* the Batcher, its goroutine's locals, and what it handed over
    metaStore,    \* the MetaStore: queries (id -> Query) and the file save wrote
    scheduler,    \* the continuous-query Service: RunLoop's locals, the clock, its log
    input,        \* package input: sequenceID and the events that were given an id
    registry      \* loader.mu and the goroutines that take it: [readers, writer, pc, ...]

poolVars == <<isClosed, resources, stores>>
procVars == <<pc, want, ctxOf, held, lease, wasWaiting>>
searchVars == <<searchSeq, cancelled, cancelErrs>>
serviceVars == <<metaStore, scheduler, input, registry>>
engineVars == <<allIndexes, idSeed, IndexDuration, dirs, docs, lastest,
                isNewUpdates, lastIndex, hung, calls, lastSweep, lastQuery, batcher,
                serviceVars>>
vars == <<isClosed, resources, stores, pc, want, ctxOf, held, lease,
          wasWaiting, searchSeq, cancelled, cancelErrs,
          allIndexes, idSeed, IndexDuration, dirs, docs, lastest,
          isNewUpdates, lastIndex, hung, calls, lastSweep, lastQuery, batcher,
          metaStore, scheduler, input, registry>>

\* ------------------------------------------------------------- helpers
Only(S) == CHOOSE x \in S : TRUE

First(S) == CHOOSE s \in S : \A t \in S : s <= t

RECURSIVE SumRef(_, _)
SumRef(res, n) == IF n = 0 THEN 0 ELSE res[n].refCounter + SumRef(res, n - 1)

\* Index.Close on store h: ok says whether the store layer reports success.
\* A failed close leaves the store open.
CloseIndex(st, h, ok) ==
    IF ok THEN [st EXCEPT ![h].open = FALSE,
                          ![h].closes = IF @ < CloseCap THEN @ + 1 ELSE @]
          ELSE st

NoStore == [id |-> 0, open |-> FALSE, closes |-> 0]
FreeHandles(st) == {h \in Handles : st[h].id = 0}

\* NewIndex / OpenIndex for descriptor id, allocated at handle h.
OpenIndex(st, h, id) == [st EXCEPT ![h] = [id |-> id, open |-> TRUE, closes |-> 0]]

\* The garbage collector: a store closed (once) that neither a slot nor a
\* lease refers to is dropped.
Collect(st, res, ls) ==
    [h \in Handles |->
        IF /\ st[h].id # 0 /\ ~st[h].open /\ st[h].closes <= 1
           /\ \A s \in Slots : res[s].index # h
           /\ \A p \in DOMAIN ls : ls[p] # h
          THEN NoStore ELSE st[h]]

\* ---------------------------------------------------- resourceSemaphore
\* rs.init(size): size fresh resources, id 0, refCounter 0, index nil.
init == [s \in Slots |-> [id |-> 0, refCounter |-> 0, index |-> Nil]]

\* One pass of the `for !rs.isClosed` loop of TryAcquire, up to the Unlock.
WaitLoop(res, closed, id) ==
    LET free == {s \in Slots : res[s].refCounter = 0} IN
    IF closed
      THEN [kind |-> "closed", r |-> NoSlot, res |-> res]
    ELSE IF free # {}
      THEN LET r == First(free) IN
           [kind |-> "acquired", r |-> r,
            res |-> [res EXCEPT ![r].id = id, ![r].refCounter = @ + 1]]
    ELSE [kind |-> "wait", r |-> NoSlot, res |-> res]

\* Mutant of TryAcquire: the matching-id return forgets r.refCounter++.
TryAcquire_NoIncrement(res, closed, id, donotWait) ==
    LET hit == {s \in Slots : res[s].id = id} IN
    IF hit # {}
      THEN [kind |-> "acquired", r |-> First(hit), res |-> res]
    ELSE IF donotWait
      THEN [kind |-> "notfound", r |-> NoSlot, res |-> res]
    ELSE WaitLoop(res, closed, id)

\* TryAcquire from rs.mu.Lock() to its first return or Unlock.
TryAcquire(res, closed, id, donotWait) ==
    LET hit == {s \in Slots : res[s].id = id} IN
    IF hit # {}
      THEN LET r == First(hit) IN
           [kind |-> "acquired", r |-> r,
            res |-> [res EXCEPT ![r].refCounter = @ + 1]]
    ELSE IF donotWait
      THEN [kind |-> "notfound", r |-> NoSlot, res |-> res]
    ELSE WaitLoop(res, closed, id)

\* Mutant of Select: the select has no ctx.Done() case.
Select_NoCtx(ctxDone, closed) == IF closed THEN {"cond"} ELSE {"park"}

\* The select of TryAcquire: the cases that can be taken by a goroutine that
\* reaches it ("park": neither channel is ready).
Select(ctxDone, closed) ==
    IF ctxDone /\ closed THEN {"ctx", "cond"}
    ELSE IF ctxDone THEN {"ctx"}
    ELSE IF closed THEN {"cond"}
    ELSE {"park"}

\* Mutant of Release: the reference count is left as it is.
Release_NoDecrement(res, st, closed, r, okc) == [res |-> res, st |-> st, signal |-> FALSE]

\* Release(r) under rs.mu. signal: the non-blocking send on rs.cond is made.
\* okc: outcome of the r.index.Close() whose error Release ignores.
Release(res, st, closed, r, okc) ==
    LET n == res[r].refCounter - 1
        res1 == [res EXCEPT ![r].refCounter = n] IN
    IF n = 0 /\ closed
      THEN [res |-> res1,
            st |-> IF res1[r].index # Nil THEN CloseIndex(st, res1[r].index, okc) ELSE st,
            signal |-> FALSE]
      ELSE [res |-> res1, st |-> st, signal |-> (n = 0)]

\* The loop of rs.Close() over slots s..NumCaches; failAt is the slot whose
\* Close reports an error (0: none), which ends the loop.
RECURSIVE CloseFrom(_, _, _, _)
CloseFrom(res, st, s, failAt) ==
    IF s > NumCaches THEN st
    ELSE IF res[s].refCounter = 0 /\ res[s].index # Nil
      THEN IF s = failAt THEN st
           ELSE CloseFrom(res, CloseIndex(st, res[s].index, TRUE), s + 1, failAt)
    ELSE CloseFrom(res, st, s + 1, failAt)

\* ------------------------------------------------------- IndexLoader.Load
\* Mutant of LoadBind: a slot bound to another descriptor is rebound without
\* closing the store it holds.
LoadBind_NoClose(res, st, closed, r, closeOk, openOk, okc) ==
    LET cur == res[r].index IN
    IF cur # Nil /\ res[r].id = st[cur].id
      THEN [kind |-> "lease", h |-> cur, res |-> res, st |-> st, signal |-> FALSE]
    ELSE IF ~openOk
      THEN LET rel == Release([res EXCEPT ![r].index = Nil], st, closed, r, okc) IN
           [kind |-> "error", h |-> Nil, res |-> rel.res, st |-> rel.st,
            signal |-> rel.signal]
    ELSE IF FreeHandles(st) = {}
      THEN [kind |-> "full", h |-> Nil, res |-> res, st |-> st, signal |-> FALSE]
    ELSE LET h == First(FreeHandles(st)) IN
         [kind |-> "lease", h |-> h, res |-> [res EXCEPT ![r].index = h],
          st |-> OpenIndex(st, h, res[r].id), signal |-> FALSE]

\* The body of Load under r.mu, after TryAcquire returned slot r.
\* closeOk / openOk: outcomes of r.index.Close() and of NewIndex/OpenIndex.
LoadBind(res, st, closed, r, closeOk, openOk, okc) ==
    LET cur == res[r].index IN
    IF cur # Nil /\ res[r].id = st[cur].id
      THEN [kind |-> "lease", h |-> cur, res |-> res, st |-> st, signal |-> FALSE]
    ELSE IF cur # Nil /\ ~closeOk
      THEN LET rel == Release(res, st, closed, r, okc) IN
           [kind |-> "error", h |-> Nil, res |-> rel.res, st |-> rel.st,
            signal |-> rel.signal]
    ELSE LET st1 == IF cur # Nil THEN CloseIndex(st, cur, TRUE) ELSE st
             res1 == [res EXCEPT ![r].index = Nil] IN
         IF ~openOk
           THEN LET rel == Release(res1, st1, closed, r, okc) IN
                [kind |-> "error", h |-> Nil, res |-> rel.res, st |-> rel.st,
                 signal |-> rel.signal]
         ELSE IF FreeHandles(st1) = {}
           THEN [kind |-> "full", h |-> Nil, res |-> res, st |-> st, signal |-> FALSE]
         ELSE LET h == First(FreeHandles(st1)) IN
              [kind |-> "lease", h |-> h,
               res |-> [res1 EXCEPT ![r].index = h],
               st |-> OpenIndex(st1, h, res[r].id), signal |-> FALSE]

\* ------------------------------------------------------------ SpecPool
\* The outcomes (TRUE: success) of a store operation that is made only when
\* called holds; one that is not made has no outcome to choose.
Outcomes(called) == IF called THEN BOOLEAN ELSE {TRUE}

Parked(pcs) == {p \in Procs : pcs[p] = "parked"}

\* The send `rs.cond <- struct{}{}` with default: it is received by one
\* goroutine blocked in the select, if there is one, and dropped otherwise.
Wake(pcn, signal) ==
    IF signal /\ Parked(pcn) # {}
      THEN \E w \in Parked(pcn) : pc' = [pcn EXCEPT ![w] = "woken"]
      ELSE pc' = pcn

NoLease == [r |-> NoSlot, index |-> Nil]

\* The zero Document a receive from the closed channel yields.
NilDocument == 0

\* NewBatcher(e, sz, dur, max), before Start and before any event.
\*   c, closed      the channel b.c and whether Stop has closed it
\*   batch          the goroutine's buffer
\*   timer, timerC  the timer ("stopped" or "armed") and a value waiting in timer.C
\*   pinned         ctx.lastest holds a lease
\*   sent           what the goroutine sent on errChan
\*   handed, indexed, accepted, flushes, failures, lastErr
\*                  the events given to Index, the events of the calls that
\*                  succeeded, the events producers enqueued, the calls of
\*                  send, the failed Index calls, whether the last call failed
NewBatcher ==
    [started |-> FALSE, running |-> FALSE, errChan |-> FALSE, c |-> <<>>, closed |-> FALSE,
     batch |-> <<>>, timer |-> "stopped", timerC |-> FALSE, pinned |-> FALSE,
     panicked |-> FALSE, sent |-> <<>>, handed |-> {}, indexed |-> {}, accepted |-> 0,
     flushes |-> 0, failures |-> 0, lastErr |-> FALSE]

\* NewMetaStore(dataPath) before Load and before any create: h.queries is nil,
\* the file does not exist, and no save has failed.
NewMetaStore == [queries |-> <<>>, file |-> <<>>, failures |-> 0]

\* Package input at start: `var sequenceID int32`, and no event has an id.
NoInput == [sequenceID |-> 0, ids |-> <<>>]

\* The goroutines that take loader.mu: two callers of Engine.Index, one of
\* Engine.Total and the retention goroutine.
Indexers == {"index1", "index2"}
Tasks == Indexers \cup {"total", "sweep"}

\* loader.mu unlocked, every goroutine outside the registry.
NoRegistry ==
    [readers |-> [p \in Tasks |-> 0], writer |-> "", waiting |-> {}, updating |-> {},
     pc |-> [p \in Tasks |-> "idle"], t |-> [p \in Indexers |-> 0],
     switched |-> [p \in Indexers |-> FALSE], made |-> [p \in Indexers |-> 0],
     arr |-> <<>>, filtered |-> <<>>,
     n |-> 0, k |-> 0, d |-> 0, r |-> NoSlot, total |-> 0, totals |-> 0, sweeps |-> 0,
     result |-> [op |-> "none"]]

\* No tick is waiting in the ticker's channel.
NilTick == 0 - 1

\* NewService(logger, searcher, metaStore, stop, runInterval), before RunLoop.
\*   runInterval    the interval the service was built with
\*   pc             where RunLoop is: "new", "select", "loop", "run", "returned"
\*   clock          the wall clock
\*   nextTick, tickC  when the ticker fires next, and the tick waiting in t.C
\*   now, lastAt, endAt  RunLoop's locals
\*   pending        the child CQs the current runContinuousQueries has still to run
\*   stop           the stop channel is closed
\*   startedAt, alignedAt   the clock and lastAt when RunLoop began
\*   ticked, tickLastAt, tickFrom   whether a tick was received, and lastAt and
\*                  Len(windows) when the last one was
\*   windows        the windows handed to runContinuousQueries, in order
\*   evals          the child evaluations begun, in order
NewService ==
    [runInterval |-> 1, pc |-> "new", clock |-> 0, nextTick |-> 0, tickC |-> NilTick,
     now |-> 0, lastAt |-> 0, endAt |-> 0, pending |-> <<>>, stop |-> FALSE,
     startedAt |-> 0, alignedAt |-> 0, ticked |-> FALSE, tickLastAt |-> 0, tickFrom |-> 0,
     windows |-> <<>>, evals |-> <<>>]

\* No Engine.Index call has returned yet.
NoIndex == [events |-> <<>>, errs |-> 0, sub |-> {}, wrote |-> {}, before |-> {}]

\* No query operation has been called yet.  A query leaves the registry and the
\* stores as they are, so a behaviour makes one query and records it.
NoQuery == [op |-> "none"]

\* No retention sweep has run yet.
NoSweep == [n |-> 0, now |-> 0, gone |-> {}, failed |-> {}]

\* NewEngine + Engine.Open on an empty data directory.
InitEngineVars ==
    /\ allIndexes = <<>>
    /\ idSeed = 0
    /\ dirs = {}
    /\ docs = {}
    /\ lastest = NoLease
    /\ isNewUpdates = {}
    /\ lastIndex = NoIndex
    /\ hung = FALSE
    /\ calls = 0
    /\ lastSweep = NoSweep
    /\ lastQuery = NoQuery
    /\ batcher = NewBatcher
    /\ metaStore = NewMetaStore
    /\ scheduler = NewService
    /\ input = NoInput
    /\ registry = NoRegistry

InitPoolVars ==
    /\ isClosed = FALSE
    /\ resources = init
    /\ stores = [h \in Handles |-> NoStore]

InitProcVars ==
    /\ pc = [p \in Procs |-> "idle"]
    /\ want = [p \in Procs |-> 0]
    /\ ctxOf = [p \in Procs |-> Background]
    /\ held = [p \in Procs |-> NoSlot]
    /\ lease = [p \in Procs |-> Nil]
    /\ wasWaiting = [p \in Procs |-> FALSE]
    /\ searchSeq = 0
    /\ cancelled = {}
    /\ cancelErrs = {}

InitPool ==
    /\ InitPoolVars
    /\ InitProcVars
    /\ InitEngineVars
    /\ IndexDuration = ShortDuration

IdleProcs == {p \in Procs : pc[p] = "idle"}

\* The k-th smallest element of a finite set of numbers.
RECURSIVE Nth(_, _)
Nth(S, k) == IF k = 1 THEN First(S) ELSE Nth(S \ {First(S)}, k - 1)

\* MultiSearch(ctx, req, indexes): one goroutine per descriptor of indexes,
\* all given the caller's context.
MultiSearch(indexes) ==
    /\ UNCHANGED engineVars
    /\ searchSeq < MaxSearches
    /\ Cardinality(indexes) <= Cardinality(IdleProcs)
    /\ LET n == Cardinality(indexes)
           k == searchSeq + 1
           child == {Nth(IdleProcs, j) : j \in 1..n}
           idOf == [j \in 1..n |-> Nth(indexes, j)]
           jOf(p) == CHOOSE j \in 1..n : Nth(IdleProcs, j) = p IN
       /\ searchSeq' = k
       /\ pc' = [p \in Procs |-> IF p \in child THEN "acquire" ELSE pc[p]]
       /\ want' = [p \in Procs |-> IF p \in child THEN idOf[jOf(p)] ELSE want[p]]
       /\ ctxOf' = [p \in Procs |-> IF p \in child THEN k ELSE ctxOf[p]]
    /\ UNCHANGED <<poolVars, held, lease, wasWaiting, cancelled, cancelErrs>>

\* The goroutine of child p ends: rv was sent on cancelErrs, wg.Done() was
\* called and every deferred call has run.
Exit(p, pcs) == [pcs EXCEPT ![p] = "idle"]

\* searchChildIndex lines 252-257: Load failed with err; the child sends the
\* error and returns.
ChildFail(p, err) ==
    /\ cancelErrs' = IF wasWaiting[p] THEN cancelErrs \cup {err} ELSE cancelErrs
    /\ want' = [want EXCEPT ![p] = 0]
    /\ ctxOf' = [ctxOf EXCEPT ![p] = Background]
    /\ wasWaiting' = [wasWaiting EXCEPT ![p] = FALSE]

\* The caller cancels the context of search k. A goroutine blocked in the
\* select takes the ctx.Done() case: TryAcquire returns ctx.Err().
Cancel(k) ==
    /\ UNCHANGED engineVars
    /\ k \in 1..searchSeq
    /\ k \notin cancelled
    /\ \E p \in Procs : ctxOf[p] = k
    /\ cancelled' = cancelled \cup {k}
    /\ LET P == {p \in Procs : ctxOf[p] = k /\ pc[p] = "parked"} IN
       /\ pc' = [p \in Procs |-> IF p \in P THEN "idle" ELSE pc[p]]
       /\ cancelErrs' = IF P = {} THEN cancelErrs ELSE cancelErrs \cup {"cancelled"}
       /\ want' = [p \in Procs |-> IF p \in P THEN 0 ELSE want[p]]
       /\ ctxOf' = [p \in Procs |-> IF p \in P THEN Background ELSE ctxOf[p]]
       /\ wasWaiting' = [p \in Procs |->
             IF ctxOf[p] = k /\ pc[p] = "unlocked" THEN TRUE ELSE wasWaiting[p]]
    /\ UNCHANGED <<poolVars, held, lease, searchSeq>>

\* Applies the outcome of a pass of TryAcquire to goroutine p.
Acquired(p, out) ==
    /\ UNCHANGED engineVars
    /\ resources' = out.res
    /\ CASE out.kind = "acquired" ->
              /\ pc' = [pc EXCEPT ![p] = "bind"]
              /\ held' = [held EXCEPT ![p] = out.r]
              /\ UNCHANGED <<want, ctxOf, wasWaiting, cancelErrs>>
         [] out.kind = "wait" ->
              /\ pc' = [pc EXCEPT ![p] = "unlocked"]
              /\ UNCHANGED <<held, want, ctxOf, wasWaiting, cancelErrs>>
         [] OTHER ->
              /\ pc' = Exit(p, pc)
              /\ ChildFail(p, out.kind)
              /\ held' = held
    /\ UNCHANGED <<isClosed, stores, lease, searchSeq, cancelled>>

\* Load line 294: TryAcquire(ctx, li.id, false), first critical section.
AcquireEnter(p) ==
    /\ pc[p] = "acquire"
    /\ Acquired(p, TryAcquire(resources, isClosed, want[p], FALSE))

\* TryAcquire lines 96-102: the mutex is released, the goroutine selects.
AcquireSelect(p) ==
    /\ UNCHANGED engineVars
    /\ pc[p] = "unlocked"
    /\ \E c \in Select(ctxOf[p] \in cancelled, isClosed) :
         CASE c = "ctx" ->
                /\ pc' = Exit(p, pc)
                /\ ChildFail(p, "cancelled")
           [] c = "cond" ->
                /\ pc' = [pc EXCEPT ![p] = "woken"]
                /\ UNCHANGED <<want, ctxOf, wasWaiting, cancelErrs>>
           [] OTHER ->
                /\ pc' = [pc EXCEPT ![p] = "parked"]
                /\ UNCHANGED <<want, ctxOf, wasWaiting, cancelErrs>>
    /\ UNCHANGED <<poolVars, held, lease, searchSeq, cancelled>>

\* TryAcquire lines 103-105 and the next pass of the loop.
AcquireRetry(p) ==
    /\ pc[p] = "woken"
    /\ Acquired(p, WaitLoop(resources, isClosed, want[p]))

\* Load lines 299-342 under r.mu.
Load(p) ==
    /\ UNCHANGED engineVars
    /\ pc[p] = "bind"
    /\ \E closeOk \in Outcomes(resources[held[p]].index # Nil), openOk \in BOOLEAN,
          okc \in Outcomes(isClosed) :
         LET out == LoadBind(resources, stores, isClosed, held[p], closeOk, openOk, okc) IN
         /\ out.kind # "full"
         /\ resources' = out.res
         /\ IF out.kind = "lease"
              THEN /\ lease' = [lease EXCEPT ![p] = out.h]
                   /\ pc' = [pc EXCEPT ![p] = "leased"]
                   /\ UNCHANGED <<held, want, ctxOf, wasWaiting, cancelErrs>>
              ELSE /\ held' = [held EXCEPT ![p] = NoSlot]
                   /\ lease' = lease
                   /\ ChildFail(p, "error")
                   /\ Wake(Exit(p, pc), out.signal)
         /\ stores' = Collect(out.st, out.res, lease')
    /\ UNCHANGED <<isClosed, searchSeq, cancelled>>

\* searchChildIndex lines 259-266: SearchInContext (the store honours the
\* context), the result is sent, wg.Done(), and the deferred CloseWith(index):
\* ResourceIndex.Close calls Release(ri.r).
ChildSearch(p) ==
    /\ UNCHANGED engineVars
    /\ pc[p] = "leased"
    /\ cancelErrs' = IF wasWaiting[p]
                       THEN cancelErrs \cup {IF ctxOf[p] \in cancelled THEN "cancelled" ELSE "ok"}
                       ELSE cancelErrs
    /\ held' = [held EXCEPT ![p] = NoSlot]
    /\ lease' = [lease EXCEPT ![p] = Nil]
    /\ \E okc \in Outcomes(isClosed) :
         LET rel == Release(resources, stores, isClosed, held[p], okc) IN
         /\ resources' = rel.res
         /\ stores' = Collect(rel.st, rel.res, lease')
         /\ Wake(Exit(p, pc), rel.signal)
    /\ want' = [want EXCEPT ![p] = 0]
    /\ ctxOf' = [ctxOf EXCEPT ![p] = Background]
    /\ wasWaiting' = [wasWaiting EXCEPT ![p] = FALSE]
    /\ UNCHANGED <<isClosed, searchSeq, cancelled>>

\* resourceSemaphore.Close(); a second call returns at once.
Close ==
    /\ UNCHANGED engineVars
    /\ ~isClosed
    /\ isClosed' = TRUE
    /\ \E failAt \in {0} \cup {s \in Slots : resources[s].refCounter = 0 /\ resources[s].index # Nil} :
         stores' = Collect(CloseFrom(resources, stores, 1, failAt), resources, lease)
    /\ pc' = [p \in Procs |-> IF pc[p] = "parked" THEN "woken" ELSE pc[p]]
    /\ UNCHANGED <<resources, want, ctxOf, held, lease, wasWaiting, searchVars>>

NextPool ==
    \/ \E S \in SUBSET Ids : S # {} /\ MultiSearch(S)
    \/ \E k \in 1..MaxSearches : Cancel(k)
    \/ \E p \in Procs : AcquireEnter(p)
    \/ \E p \in Procs : AcquireSelect(p)
    \/ \E p \in Procs : AcquireRetry(p)
    \/ \E p \in Procs : Load(p)
    \/ \E p \in Procs : ChildSearch(p)
    \/ Close

SpecPool == InitPool /\ [][NextPool]_vars

\* searchChildIndex lines 262-265, step by step: SearchInContext returns, the
\* result is sent on asyncResults and waitGroup.Done() is called.
ChildDone(p) ==
    /\ UNCHANGED engineVars
    /\ pc[p] = "leased"
    /\ cancelErrs' = IF wasWaiting[p]
                       THEN cancelErrs \cup {IF ctxOf[p] \in cancelled THEN "cancelled" ELSE "ok"}
                       ELSE cancelErrs
    /\ pc' = [pc EXCEPT ![p] = "closing"]
    /\ UNCHANGED <<poolVars, want, ctxOf, held, lease, wasWaiting, searchSeq, cancelled>>

\* searchChildIndex returns: the deferred CloseWith(index) of line 259 runs,
\* ResourceIndex.Close calls Release(ri.r).
ChildClose(p) ==
    /\ UNCHANGED engineVars
    /\ pc[p] = "closing"
    /\ held' = [held EXCEPT ![p] = NoSlot]
    /\ lease' = [lease EXCEPT ![p] = Nil]
    /\ \E okc \in Outcomes(isClosed) :
         LET rel == Release(resources, stores, isClosed, held[p], okc) IN
         /\ resources' = rel.res
         /\ stores' = Collect(rel.st, rel.res, lease')
         /\ Wake(Exit(p, pc), rel.signal)
    /\ want' = [want EXCEPT ![p] = 0]
    /\ ctxOf' = [ctxOf EXCEPT ![p] = Background]
    /\ wasWaiting' = [wasWaiting EXCEPT ![p] = FALSE]
    /\ UNCHANGED <<isClosed, searchSeq, cancelled, cancelErrs>>

\* MultiSearch with the end of each child taken step by step.
NextFanOut ==
    \/ \E S \in SUBSET Ids : S # {} /\ MultiSearch(S)
    \/ \E p \in Procs : AcquireEnter(p)
    \/ \E p \in Procs : AcquireSelect(p)
    \/ \E p \in Procs : AcquireRetry(p)
    \/ \E p \in Procs : Load(p)
    \/ \E p \in Procs : ChildDone(p)
    \/ \E p \in Procs : ChildClose(p)

SpecFanOut == InitPool /\ [][NextFanOut]_vars


\* ------------------------------------------------------------ registry
Times == 0..MaxTime
Durations == {ShortDuration, LongDuration}

\* The injective sequences over a finite set (an iteration order of it).
Perms(S) == {f \in [1..Cardinality(S) -> S] :
                \A i, j \in 1..Cardinality(S) : i # j => f[i] # f[j]}

\* LazyIndex.Contains
Contains(i, t) == (t = i.startTime \/ t > i.startTime) /\ t < i.endTime

\* LazyIndexes.Less
Less(u, v) == IF u.endTime > v.endTime THEN TRUE ELSE u.startTime > v.startTime

\* sort.Sort(allIndexes): on the short slices of the model it is the
\* insertion sort of package sort, driven by Less.
RECURSIVE Sink(_, _)
Sink(data, j) ==
    IF j > 1 /\ Less(data[j], data[j - 1])
      THEN Sink([data EXCEPT ![j] = data[j - 1], ![j - 1] = data[j]], j - 1)
      ELSE data

RECURSIVE SortFrom(_, _)
SortFrom(data, i) == IF i > Len(data) THEN data ELSE SortFrom(Sink(data, i), i + 1)

Sort(data) == SortFrom(data, 2)

\* IndexLoader.indexForReferenceTime: the id of the first descriptor of the
\* list that contains t, 0 for nil.
indexForReferenceTime(all, t) ==
    LET hit == {i \in 1..Len(all) : Contains(all[i], t)} IN
    IF hit = {} THEN 0 ELSE all[First(hit)].id

\* The descriptor with the given id.
Desc(all, id) == all[CHOOSE i \in 1..Len(all) : all[i].id = id]

\* IndexLoader.newIndex
newIndex(all, seed, startTime, endTime) ==
    [all |-> Sort(Append(all, [id |-> seed + 1, startTime |-> startTime,
                               endTime |-> endTime, isNew |-> TRUE])),
     seed |-> seed + 1, id |-> seed + 1]

\* Engine.createIndex; panic: the assert fails.
createIndex(all, seed, startTime, endTime) ==
    LET same == {i \in 1..Len(all) : all[i].startTime = startTime}
        start == IF same = {} THEN startTime ELSE all[First(same)].endTime
        made == newIndex(all, seed, start, endTime) IN
    [all |-> made.all, seed |-> made.seed, id |-> made.id, panic |-> start > endTime]

\* time.Time.Truncate(d)
Truncate(t, d) == t - (t % d)

\* Engine.Index lines 539-560: the batch is de-multiplexed into sub-batches
\* keyed by descriptor (sub: id -> events), creating descriptors on demand.
\* The second indexForReferenceTime after switchFunc finds what the first
\* found: this batcher is the only writer of the registry.
RECURSIVE Demux(_, _, _, _, _, _)
Demux(all, seed, dur, events, k, sub) ==
    IF k > Len(events)
      THEN [all |-> all, seed |-> seed, sub |-> sub, panic |-> FALSE]
      ELSE LET t == events[k]
               found == indexForReferenceTime(all, t)
               start == Truncate(t, dur)
               c == createIndex(all, seed, start, start + dur)
               id == IF found # 0 THEN found ELSE c.id
               sub1 == IF id \in DOMAIN sub
                         THEN [sub EXCEPT ![id] = Append(@, t)]
                         ELSE (id :> <<t>>) @@ sub IN
           IF found = 0 /\ c.panic
             THEN [all |-> all, seed |-> seed, sub |-> sub, panic |-> TRUE]
           ELSE IF found # 0 THEN Demux(all, seed, dur, events, k + 1, sub1)
           ELSE Demux(c.all, c.seed, dur, events, k + 1, sub1)

\* Index.Index(b) on the store of handle h by the goroutine of sub-batch li:
\* the documents land in the partition the store was opened for.
Write(S, all, li, h, b, ok) ==
    IF ok
      THEN LET d == Desc(all, S.st[h].id) IN
           [S EXCEPT !.docs = @ \cup {[startTime |-> d.startTime, endTime |-> d.endTime,
                                       t |-> b[j]] : j \in 1..Len(b)},
                     !.wrote = @ \cup {li}]
      ELSE [S EXCEPT !.errs = @ + 1]

\* NewIndex creates the partition directory named after startTime, with the
\* end-time file; OpenIndex opens the directory that is there.
MakeDir(ds, d) ==
    {x \in ds : x.startTime # d.startTime}
        \cup {[startTime |-> d.startTime, endTime |-> d.endTime]}

\* Engine.Index lines 574-603: the goroutine started for sub-batch (li, b) of
\* n, which reads the loop variable lazyIndex when it holds tgt.
\* S: [res, st, lastest, docs, dirs, pend, errs, wrote, hung, full].
IndexChild(S, all, li, tgt, b, n, f) ==
    IF S.hung \/ S.full THEN S
    ELSE IF S.lastest # NoLease /\ S.res[S.lastest.r].id = li
      THEN Write(S, all, li, S.lastest.index, b, f.writeOk)
    ELSE LET acq == TryAcquire(S.res, FALSE, tgt, FALSE) IN
         IF acq.kind # "acquired" THEN [S EXCEPT !.hung = TRUE]
         ELSE LET out == LoadBind(acq.res, S.st, FALSE, acq.r, f.closeOk, f.openOk, TRUE) IN
              IF out.kind = "full" THEN [S EXCEPT !.full = TRUE]
              ELSE IF out.kind = "error"
                THEN [S EXCEPT !.res = out.res, !.st = out.st, !.errs = @ + 1]
              ELSE LET d == Desc(all, tgt)
                       fresh == out.h # acq.res[acq.r].index
                       S1 == [S EXCEPT !.res = out.res, !.st = out.st,
                                !.dirs = IF fresh /\ d.isNew THEN MakeDir(@, d) ELSE @,
                                !.pend = IF fresh /\ d.isNew THEN @ \cup {tgt} ELSE @]
                       S2 == Write(S1, all, li, out.h, b, f.writeOk) IN
                   IF n = 1
                     THEN [S2 EXCEPT !.lastest = [r |-> acq.r, index |-> out.h]]
                     ELSE LET rel == Release(S2.res, S2.st, FALSE, acq.r, TRUE) IN
                          [S2 EXCEPT !.res = rel.res, !.st = rel.st]

\* The goroutines of one Engine.Index call, run one after the other in the
\* order ord in which range yields the sub-batches; the k-th reads lazyIndex
\* when the loop is at position cap[k] >= k.
RECURSIVE IndexChildren(_, _, _, _, _, _, _)
IndexChildren(S, all, sub, ord, cap, fl, k) ==
    IF k > Len(ord) THEN S
    ELSE LET S1 == IndexChild(S, all, ord[k], ord[cap[k]], sub[ord[k]], Len(ord), fl[k]) IN
         Only({IndexChildren(x, all, sub, ord, cap, fl, k + 1) : x \in {S1}})

\* What fails in one goroutine: nothing, or the close of the evicted store,
\* or the open, or the write.
Flags == {f \in [closeOk : BOOLEAN, openOk : BOOLEAN, writeOk : BOOLEAN] :
            Cardinality({x \in {"closeOk", "openOk", "writeOk"} : ~f[x]}) <= 1}

NoFailure == [closeOk |-> TRUE, openOk |-> TRUE, writeOk |-> TRUE]

Batches == UNION {[1..n -> Times] : n \in 1..MaxBatch}

\* Mutant of ErrArray: only the first error is returned.
ErrArray_First(errList) == IF errList = 0 THEN 0 ELSE 1

\* ErrArray(errList): nil for an empty list, else the whole list; a list of
\* errors is modelled by its length.
ErrArray(errList) == IF errList = 0 THEN 0 ELSE errList

\* Engine.Index(ctx, events), called by the batcher with its Continuation.
Index(events) ==
    /\ calls < MaxCalls
    /\ ~hung
    /\ calls' = calls + 1
    /\ \E dm \in {Demux(allIndexes, idSeed, IndexDuration, events, 1, <<>>)} :
       LET keys == DOMAIN dm.sub
           n == Cardinality(keys)
           drop == n > 1 /\ lastest # NoLease
           rel == IF drop THEN Release(resources, stores, FALSE, lastest.r, TRUE)
                          ELSE [res |-> resources, st |-> stores, signal |-> FALSE]
           S0 == [res |-> rel.res, st |-> rel.st,
                  lastest |-> IF drop THEN NoLease ELSE lastest,
                  docs |-> docs, dirs |-> dirs, pend |-> isNewUpdates,
                  errs |-> 0, wrote |-> {}, hung |-> FALSE, full |-> FALSE] IN
      IF dm.panic
        THEN /\ hung' = TRUE
             /\ UNCHANGED <<allIndexes, idSeed, resources, stores, lastest, docs, dirs,
                            isNewUpdates, lastIndex>>
        ELSE \E ord \in Perms(keys), cap \in [1..n -> 1..n], fl \in [1..n -> Flags] :
               /\ \A k \in 1..n : cap[k] >= k
               /\ Cardinality({k \in 1..n : fl[k] # NoFailure}) <= MaxFailures
               /\ \E S \in {IndexChildren(Only({S0}), dm.all, dm.sub, ord, cap, fl, 1)} :
                  /\ ~S.full
                  /\ allIndexes' = dm.all
                  /\ idSeed' = dm.seed
                  /\ resources' = S.res
                  /\ lastest' = S.lastest
                  /\ stores' = Collect(S.st, S.res, <<S.lastest.index>>)
                  /\ docs' = S.docs
                  /\ dirs' = S.dirs
                  /\ isNewUpdates' = S.pend
                  /\ hung' = S.hung
                  /\ lastIndex' = IF S.hung THEN lastIndex
                                  ELSE [events |-> events, errs |-> ErrArray(S.errs),
                                        sub |-> keys,
                                        wrote |-> S.wrote, before |-> docs]
    /\ UNCHANGED <<isClosed, IndexDuration, procVars, searchVars, lastSweep, lastQuery,
                   batcher, serviceVars>>

\* The goroutine Load starts after NewIndex: li.isNew = false.
IsNewUpdate(id) ==
    /\ id \in isNewUpdates
    /\ isNewUpdates' = isNewUpdates \ {id}
    /\ allIndexes' = [i \in 1..Len(allIndexes) |->
                        IF allIndexes[i].id = id
                          THEN [allIndexes[i] EXCEPT !.isNew = FALSE]
                          ELSE allIndexes[i]]
    /\ UNCHANGED <<poolVars, procVars, searchVars, idSeed, IndexDuration, dirs, docs,
                   lastest, lastIndex, hung, calls, lastSweep, lastQuery, batcher,
                   serviceVars>>

\* IndexLoader.Open lines 137-152 over the directories in the order Readdir
\* lists them.
RECURSIVE OpenLazyIndexes(_, _, _)
OpenLazyIndexes(order, k, all) ==
    IF k > Len(order) THEN all
    ELSE OpenLazyIndexes(order, k + 1,
            Sort(Append(all, [id |-> k, startTime |-> order[k].startTime,
                              endTime |-> order[k].endTime, isNew |-> FALSE])))

\* The partitions a run with index duration d leaves in the data directory.
PriorDirs(d) == {[startTime |-> k * d, endTime |-> (k + 1) * d] : k \in 0..(MaxTime \div d)}

\* NewEngine and Engine.Open over a data directory that is empty or holds
\* the partitions of an earlier run.
InitEngine ==
    /\ InitPoolVars
    /\ InitProcVars
    /\ IndexDuration \in Durations
    /\ \E prior \in Durations : dirs \in SUBSET PriorDirs(prior)
    /\ \E order \in Perms(dirs) : allIndexes = OpenLazyIndexes(order, 1, <<>>)
    /\ idSeed = Cardinality(dirs)
    /\ docs = {}
    /\ lastest = NoLease
    /\ isNewUpdates = {}
    /\ lastIndex = NoIndex
    /\ hung = FALSE
    /\ calls = 0
    /\ lastSweep = NoSweep
    /\ lastQuery = NoQuery
    /\ batcher = NewBatcher
    /\ metaStore = NewMetaStore
    /\ scheduler = NewService
    /\ input = NoInput
    /\ registry = NoRegistry

NextEngine ==
    \/ \E events \in Batches : Index(events)
    \/ \E id \in 1..(MaxTime + 1 + MaxCalls * MaxBatch) : IsNewUpdate(id)

SpecEngine == InitEngine /\ [][NextEngine]_vars


\* ---------------------------------------------------------- Engine.Total
\* Engine.Total lines 441-457 from the descriptor at position k on: each
\* partition is loaded, counted and closed in turn; the first error ends the
\* loop.  failAt: the position whose NewIndex or OpenIndex fails (0: none).
\* S: [res, st, dirs, pend, total, errs, hung, full].
RECURSIVE TotalFrom(_, _, _, _)
TotalFrom(S, all, k, failAt) ==
    IF k > Len(all) \/ S.errs > 0 \/ S.hung \/ S.full THEN S
    ELSE LET acq == TryAcquire(S.res, FALSE, all[k].id, FALSE) IN
         IF acq.kind # "acquired" THEN [S EXCEPT !.hung = TRUE]
         ELSE LET out == LoadBind(acq.res, S.st, FALSE, acq.r, TRUE, k # failAt, TRUE) IN
              IF out.kind = "full" THEN [S EXCEPT !.full = TRUE]
              ELSE IF out.kind = "error"
                THEN [S EXCEPT !.res = out.res, !.st = out.st, !.errs = @ + 1]
              ELSE LET fresh == out.h # acq.res[acq.r].index
                       made == fresh /\ all[k].isNew
                       rel == Release(out.res, out.st, FALSE, acq.r, TRUE)
                       n == Cardinality({d \in docs : /\ d.startTime = all[k].startTime
                                                     /\ d.endTime = all[k].endTime}) IN
                   TotalFrom([S EXCEPT !.res = rel.res, !.st = rel.st,
                                       !.dirs = IF made THEN MakeDir(@, all[k]) ELSE @,
                                       !.pend = IF made THEN @ \cup {all[k].id} ELSE @,
                                       !.total = @ + n],
                             all, k + 1, failAt)

\* Engine.Total(): under the read lock of the registry; a Load that waits
\* for a slot no goroutine will release never returns.
Total(failAt) ==
    /\ lastQuery = NoQuery
    /\ ~hung
    /\ \E S \in {TotalFrom([res |-> resources, st |-> stores, dirs |-> dirs,
                            pend |-> isNewUpdates, total |-> 0, errs |-> 0,
                            hung |-> FALSE, full |-> FALSE], allIndexes, 1, failAt)} :
         /\ ~S.full
         /\ resources' = S.res
         /\ stores' = Collect(S.st, S.res, <<lastest.index>>)
         /\ dirs' = S.dirs
         /\ isNewUpdates' = S.pend
         /\ hung' = S.hung
         /\ lastQuery' = [op |-> "Total", returned |-> ~S.hung, failAt |-> failAt,
                          total |-> IF S.errs # 0 THEN 0 ELSE S.total,
                          err |-> ErrArray(S.errs), after |-> lastIndex,
                          stored |-> Cardinality(docs)]
    /\ UNCHANGED <<isClosed, procVars, searchVars, allIndexes, idSeed, IndexDuration, docs,
                   lastest, lastIndex, calls, lastSweep, batcher, serviceVars>>

\* Continuation.Close(): the lease the continuation points to is closed.
ContinuationClose ==
    /\ lastest # NoLease
    /\ ~hung
    /\ LET rel == Release(resources, stores, isClosed, lastest.r, TRUE) IN
       /\ resources' = rel.res
       /\ stores' = Collect(rel.st, rel.res, <<Nil>>)
    /\ lastest' = NoLease
    /\ UNCHANGED <<isClosed, procVars, searchVars, allIndexes, idSeed, IndexDuration, dirs,
                   docs, isNewUpdates, lastIndex, hung, calls, lastSweep, lastQuery,
                   batcher, serviceVars>>

NextTotal ==
    \/ \E events \in Batches : Index(events)
    \/ ContinuationClose
    \/ \E id \in 1..(MaxTime + 1 + MaxCalls * MaxBatch) : IsNewUpdate(id)
    \/ \E failAt \in 0..(MaxTime + 1) : Total(failAt)

\* NewEngine and Engine.Open over the data directory of an earlier run with
\* the same index duration that ended before the last period, listed in the
\* order of the names.
InitTotal ==
    /\ InitPoolVars
    /\ InitProcVars
    /\ IndexDuration = ShortDuration
    /\ dirs = {d \in PriorDirs(ShortDuration) : d.startTime < MaxTime}
    /\ \E order \in Perms(dirs) :
         /\ \A i \in 1..(Len(order) - 1) : order[i].startTime < order[i + 1].startTime
         /\ allIndexes = OpenLazyIndexes(order, 1, <<>>)
    /\ idSeed = Cardinality(dirs)
    /\ docs = {}
    /\ lastest = NoLease
    /\ isNewUpdates = {}
    /\ lastIndex = NoIndex
    /\ hung = FALSE
    /\ calls = 0
    /\ lastSweep = NoSweep
    /\ lastQuery = NoQuery
    /\ batcher = NewBatcher
    /\ metaStore = NewMetaStore
    /\ scheduler = NewService
    /\ input = NoInput
    /\ registry = NoRegistry

SpecTotal == InitTotal /\ [][NextTotal]_vars


\* ------------------------------------------------------------ retention
\* Mutant of Expired: the comparison is inverted (After for Before).
Expired_Inverted(i, t, r) == i.endTime + r > t

\* LazyIndex.Expired(t, r): i.endTime.Add(r).Before(t)
Expired(i, t, r) == i.endTime + r < t

\* The positions of the registry whose descriptor has a lease out: a slot
\* bound to its id with a reference count above zero.
Leased(all, res) ==
    {i \in 1..Len(all) : \E s \in Slots : res[s].id = all[i].id /\ res[s].refCounter > 0}

\* The filter loop of enforceRetention: the descriptors that stay, in order.
RECURSIVE Filtered(_, _, _)
Filtered(all, t, k) ==
    IF k > Len(all) THEN <<>>
    ELSE IF Expired(all[k], t, RetentionPeriod) THEN Filtered(all, t, k + 1)
    ELSE <<all[k]>> \o Filtered(all, t, k + 1)

\* os.RemoveAll(i.path) for the descriptors at the positions rm: the path of
\* a descriptor is its partition directory, and the data directory itself
\* (loader.path) while isNew is set.
RemoveAll(ds, all, rm) ==
    IF \E i \in rm : all[i].isNew THEN {}
    ELSE {d \in ds : \A i \in rm : d.startTime # all[i].startTime}

\* Engine.enforceRetention() when time.Now() reads t; failed: the positions
\* whose os.RemoveAll returns an error.
enforceRetention(t, failed) ==
    /\ lastSweep.n < MaxSweeps
    /\ t >= lastSweep.now
    /\ LET exp == {i \in 1..Len(allIndexes) : Expired(allIndexes[i], t, RetentionPeriod)} IN
       /\ failed \subseteq exp
       /\ allIndexes' = Filtered(allIndexes, t, 1)
       /\ dirs' = RemoveAll(dirs, allIndexes, exp \ failed)
       /\ docs' = {d \in docs : \E x \in dirs' : x.startTime = d.startTime}
       /\ lastSweep' = [n |-> lastSweep.n + 1, now |-> t,
                        gone |-> {[startTime |-> allIndexes[i].startTime,
                                   endTime |-> allIndexes[i].endTime,
                                   leased |-> i \in Leased(allIndexes, resources)] : i \in exp},
                        failed |-> {allIndexes[i].startTime : i \in failed}]
    /\ UNCHANGED <<poolVars, procVars, searchVars, idSeed, IndexDuration, lastest,
                   isNewUpdates, lastIndex, hung, calls, lastQuery, batcher, serviceVars>>

\* The engine fed one event at a time, with the retention goroutine running.
NextRetention ==
    \/ \E t \in Times : Index(<<t>>)
    \/ \E id \in 1..(MaxTime + 1 + MaxCalls) : IsNewUpdate(id)
    \/ \E t \in 0..MaxNow, failed \in SUBSET (1..(MaxTime + 1 + MaxCalls)) :
         enforceRetention(t, failed)

\* The partition directories earlier runs under both index durations leave:
\* a partition of the long duration is created next to those of the short
\* one that do not hold its start (a directory is named after its start).
MixedDirs ==
    {ds \in SUBSET (PriorDirs(ShortDuration) \cup PriorDirs(LongDuration)) :
        \A x, y \in ds : x.startTime = y.startTime => x = y}

\* NewEngine and Engine.Open over such a data directory.
InitReopened ==
    /\ InitPoolVars
    /\ InitProcVars
    /\ IndexDuration \in Durations
    /\ dirs \in MixedDirs
    /\ \E order \in Perms(dirs) : allIndexes = OpenLazyIndexes(order, 1, <<>>)
    /\ idSeed = Cardinality(dirs)
    /\ docs = {}
    /\ lastest = NoLease
    /\ isNewUpdates = {}
    /\ lastIndex = NoIndex
    /\ hung = FALSE
    /\ calls = 0
    /\ lastSweep = NoSweep
    /\ lastQuery = NoQuery
    /\ batcher = NewBatcher
    /\ metaStore = NewMetaStore
    /\ scheduler = NewService
    /\ input = NoInput
    /\ registry = NoRegistry

SpecRetention == InitReopened /\ [][NextRetention]_vars


\* --------------------------------------------------------------- queries
\* The zero time.Time (IsZero), before every instant.
Zero == 0 - 1

\* The bounds a caller passes to GetIndexes.
QueryTimes == {Zero} \cup 0..(MaxTime + 1)

\* The descriptors of all at the positions of keep, in order.
RECURSIVE Kept(_, _, _)
Kept(all, keep, k) ==
    IF k > Len(all) THEN <<>>
    ELSE IF k \in keep THEN <<all[k]>> \o Kept(all, keep, k + 1)
    ELSE Kept(all, keep, k + 1)

\* IndexLoader.getIndexs(startTime, endTime)
getIndexs(all, startTime, endTime) ==
    IF startTime = Zero
      THEN IF endTime = Zero THEN all
           ELSE Kept(all, {k \in 1..Len(all) : ~(endTime < all[k].startTime)}, 1)
    ELSE IF endTime = Zero
      THEN Kept(all, {k \in 1..Len(all) : ~(startTime > all[k].endTime)}, 1)
    ELSE Kept(all, {k \in 1..Len(all) : /\ ~(endTime < all[k].startTime)
                                         /\ ~(startTime > all[k].endTime)}, 1)

\* IndexLoader.GetIndexes(startTime, endTime), under the read lock.
GetIndexes(startTime, endTime) ==
    /\ lastQuery = NoQuery
    /\ lastQuery' = [op |-> "GetIndexes", startTime |-> startTime, endTime |-> endTime,
                     indexes |-> getIndexs(allIndexes, startTime, endTime)]
    /\ UNCHANGED <<poolVars, procVars, searchVars, allIndexes, idSeed, IndexDuration, dirs,
                   docs, lastest, isNewUpdates, lastIndex, hung, calls, lastSweep, batcher,
                   serviceVars>>

\* The matches one partition stores for the query: their scores, best first.
Stored == {st \in UNION {[1..n -> 1..MaxScore] : n \in 0..MaxHits} :
              \A i, j \in DOMAIN st : i < j => st[i] >= st[j]}

\* The paging of a bleve.SearchRequest.
Requests == [From : 0..MaxFrom, Size : 0..MaxSize]

\* createChildSearchRequest: Size + From hits, from the first.
createChildSearchRequest(req) == [From |-> 0, Size |-> req.Size + req.From]

\* index.Index.Alias.SearchInContext(ctx, childReq) on partition p: the
\* stored matches in score order, From skipped, at most Size of them.
SearchInContext(p, st, req) ==
    LET left == IF Len(st) > req.From THEN Len(st) - req.From ELSE 0
        n == IF left < req.Size THEN left ELSE req.Size IN
    [k \in 1..n |-> [part |-> p, n |-> k + req.From, score |-> st[k + req.From]]]

\* sr.Merge over the results of the children: the hits concatenated.
RECURSIVE Merge(_, _, _)
Merge(parts, childReq, p) ==
    IF p > Len(parts) THEN <<>>
    ELSE SearchInContext(p, parts[p], childReq) \o Merge(parts, childReq, p + 1)

\* multiSearchHitSorter.Less for the order "-_score": no hit precedes a better one.
Sorted(hits) == \A i, j \in 1..Len(hits) : i < j => hits[i].score >= hits[j].score

\* sort.Sort(sorter): not stable, so any sorted arrangement of the hits.
SortHits(hits) ==
    {g \in {[i \in 1..Len(hits) |-> hits[f[i]]] : f \in Perms(1..Len(hits))} : Sorted(g)}

\* MultiSearch, "now skip over the correct From" and "now trim to the correct size".
Page(hits, req) ==
    LET skipped == IF req.From > 0 /\ Len(hits) > req.From
                     THEN SubSeq(hits, req.From + 1, Len(hits))
                   ELSE IF req.From > 0 THEN <<>>
                   ELSE hits IN
    IF req.Size > 0 /\ Len(skipped) > req.Size THEN SubSeq(skipped, 1, req.Size)
    ELSE skipped

\* MultiSearch over partitions that all answer: child requests, merge, sort, page.
MultiSearchHits(parts, req) ==
    /\ lastQuery = NoQuery
    /\ \E sorted \in SortHits(Merge(parts, createChildSearchRequest(req), 1)) :
          lastQuery' = [op |-> "MultiSearch", req |-> req, parts |-> parts,
                        Hits |-> Page(sorted, req)]
    /\ UNCHANGED <<poolVars, procVars, searchVars, allIndexes, idSeed, IndexDuration, dirs,
                   docs, lastest, isNewUpdates, lastIndex, hung, calls, lastSweep, batcher,
                   serviceVars>>

NextQuery ==
    \/ \E startTime \in QueryTimes, endTime \in QueryTimes : GetIndexes(startTime, endTime)
    \/ \E parts \in [1..NumParts -> Stored], req \in Requests : MultiSearchHits(parts, req)

SpecQuery == InitReopened /\ [][NextQuery]_vars


\* ---------------------------------------------------------------- search
\* The queries a caller hands in: none, a query that the events received at
\* the instants of `of` match, or a conjunction of such queries.
NilQuery == [kind |-> "nil"]
MatchQueries == {[kind |-> "match", of |-> S] : S \in SUBSET Times}
CallerQueries ==
    {NilQuery} \cup MatchQueries \cup {[kind |-> "conj", qs |-> <<q>>] : q \in MatchQueries}

\* bleve.NewDateRangeInclusiveQuery(start, end, true, true) on field "reception";
\* a zero end point leaves its side open.
DateRangeInclusiveQuery(start, end) == [kind |-> "range", start |-> start, end |-> end]

\* Whether the event received at t satisfies a query without conjunctions.
MatchesLeaf(q, t) ==
    CASE q.kind = "match" -> t \in q.of
      [] q.kind = "range" -> (q.start = Zero \/ t >= q.start) /\ (q.end = Zero \/ t <= q.end)
      [] OTHER -> FALSE

\* Whether the event received at t satisfies q.
Matches(q, t) ==
    IF q.kind = "conj" THEN \A k \in 1..Len(q.qs) : MatchesLeaf(q.qs[k], t)
    ELSE MatchesLeaf(q, t)

\* Mutant of WithTimeQuery: the request's query is left as it came.
WithTimeQuery_Untouched(q, start, end, now) == q

\* Server.SearchIn, lines 380-398: the query of the request after the
\* reception range has been added to it.
WithTimeQuery(q, start, end, now) ==
    IF start # Zero \/ end # Zero
      THEN IF q.kind = "nil" THEN DateRangeInclusiveQuery(start, end)
           ELSE IF q.kind = "conj"
             THEN [q EXCEPT !.qs = Append(@, DateRangeInclusiveQuery(start, end))]
           ELSE [kind |-> "conj", qs |-> <<q, DateRangeInclusiveQuery(start, end)>>]
    ELSE IF q.kind = "nil" THEN DateRangeInclusiveQuery(start, now)
    ELSE q

\* The events stored in the partitions of indexes.
StoredIn(indexes) ==
    {d \in docs : \E k \in 1..Len(indexes) : indexes[k].startTime = d.startTime}

\* Engine.Query(startTime, endTime, req): the events of the selected
\* partitions that match the request's query; bleve.ErrorAliasEmpty when no
\* partition is selected.
Query(startTime, endTime, q) ==
    LET indexes == getIndexs(allIndexes, startTime, endTime) IN
    IF Len(indexes) = 0 THEN [err |-> "ErrorAliasEmpty", hits |-> {}]
    ELSE [err |-> "nil", hits |-> {d \in StoredIn(indexes) : Matches(q, d.t)}]

\* Server.SearchIn with start_at = start and end_at = end.
SearchIn(start, end, q) ==
    /\ lastQuery = NoQuery
    /\ LET query == WithTimeQuery(q, start, end, MaxTime + 1)
           resp == Query(start, end, query) IN
       lastQuery' = [op |-> "SearchIn", startTime |-> start, endTime |-> end,
                     query |-> query, err |-> resp.err, hits |-> resp.hits,
                     total |-> Cardinality(resp.hits)]
    /\ UNCHANGED <<poolVars, procVars, searchVars, allIndexes, idSeed, IndexDuration, dirs,
                   docs, lastest, isNewUpdates, lastIndex, hung, calls, lastSweep, batcher,
                   serviceVars>>

\* facetByTime(startAt, endAt, field, value): the ranges [nextStart, nextEnd)
\* added while nextEnd is before endAt.
RECURSIVE facetByTime(_, _, _)
facetByTime(nextStart, endAt, value) ==
    IF nextStart + value < endAt
      THEN {[start |-> nextStart, end |-> nextStart + value]}
               \cup facetByTime(nextStart + value, endAt, value)
    ELSE {}

\* Mutant of Answered: an empty selection is answered like any other.
Answered_Always(resp) == TRUE

\* Whether Engine.Query called its callback: it returns before MultiSearch
\* when no partition is selected.
Answered(resp) == resp.err = "nil"

\* GroupByTime(searcher, ctx, startAt, endAt, q, "reception", value): the
\* date-range facets of the result, each with the events it counts.
GroupByTime(startAt, endAt, q, value) ==
    /\ lastQuery = NoQuery
    /\ LET resp == Query(startAt, endAt, q)
           results == {[start |-> f.start, end |-> f.end,
                        counted |-> {d \in resp.hits : f.start <= d.t /\ d.t < f.end}] :
                           f \in facetByTime(startAt, endAt, value)} IN
       lastQuery' = [op |-> "GroupByTime", startTime |-> startAt, endTime |-> endAt,
                     query |-> q, err |-> IF Answered(resp) THEN "nil" ELSE resp.err,
                     results |-> {r \in results : r.counted # {}},
                     facets |-> facetByTime(startAt, endAt, value), step |-> value,
                     delivered |-> Answered(resp)]
    /\ UNCHANGED <<poolVars, procVars, searchVars, allIndexes, idSeed, IndexDuration, dirs,
                   docs, lastest, isNewUpdates, lastIndex, hung, calls, lastSweep, batcher,
                   serviceVars>>

NextSearch ==
    \/ \E start \in QueryTimes, end \in QueryTimes, q \in CallerQueries : SearchIn(start, end, q)
    \/ \E startAt \in Times, endAt \in 0..(MaxTime + 1), q \in CallerQueries \ {NilQuery},
          value \in 1..MaxStep : GroupByTime(startAt, endAt, q, value)

\* The events an earlier run can have stored in the directories ds.
StoredDocs(ds) ==
    {[startTime |-> x.startTime, endTime |-> x.endTime, t |-> t] :
        x \in ds, t \in Times}

\* NewEngine and Engine.Open over a data directory with stored events.
InitStored ==
    /\ InitPoolVars
    /\ InitProcVars
    /\ IndexDuration \in Durations
    /\ dirs \in MixedDirs
    /\ \E order \in Perms(dirs) : allIndexes = OpenLazyIndexes(order, 1, <<>>)
    /\ idSeed = Cardinality(dirs)
    /\ docs \in SUBSET {d \in StoredDocs(dirs) : d.startTime <= d.t /\ d.t < d.endTime}
    /\ lastest = NoLease
    /\ isNewUpdates = {}
    /\ lastIndex = NoIndex
    /\ hung = FALSE
    /\ calls = 0
    /\ lastSweep = NoSweep
    /\ lastQuery = NoQuery
    /\ batcher = NewBatcher
    /\ metaStore = NewMetaStore
    /\ scheduler = NewService
    /\ input = NoInput
    /\ registry = NoRegistry

SpecSearch == InitStored /\ [][NextSearch]_vars


\* --------------------------------------------------------------- group by
MaxEnd == 4

\* facetByNumericRange(field, start, end, interval): the numeric ranges added
\* while nextEnd <= end, in the order they are added; the first has no min,
\* one that ends at end has no max.
RECURSIVE facetByNumericRange(_, _, _, _)
facetByNumericRange(nextStart, start, end, interval) ==
    IF nextStart + interval <= end
      THEN <<[name |-> nextStart,
              hasMin |-> nextStart # start,
              min |-> nextStart,
              hasMax |-> nextStart = start \/ nextStart + interval # end,
              max |-> nextStart + interval]>>
               \o facetByNumericRange(nextStart + interval, start, end, interval)
    ELSE <<>>

\* Whether bleve counts the value v in the numeric range f: min <= v < max,
\* a side without a bound being open.
InNumericRange(f, v) == (f.hasMin => f.min <= v) /\ (f.hasMax => v < f.max)

\* GroupByNumeric(searcher, ctx, startAt, endAt, q, field, start, end, step):
\* the numeric-range facets of the result, each with the events it counts
\* (an event's number is taken to be its reception instant).
GroupByNumeric(startAt, endAt, q, start, end, step) ==
    /\ lastQuery = NoQuery
    /\ LET resp == Query(startAt, endAt, q)
           facets == facetByNumericRange(start, start, end, step)
           results == {[name |-> facets[k].name,
                        counted |-> {d \in resp.hits : InNumericRange(facets[k], d.t)}] :
                           k \in 1..Len(facets)} IN
       lastQuery' = [op |-> "GroupByNumeric", startTime |-> startAt, endTime |-> endAt,
                     query |-> q, start |-> start, end |-> end, step |-> step,
                     facets |-> facets,
                     err |-> IF Answered(resp) THEN "nil" ELSE resp.err,
                     results |-> {r \in results : r.counted # {}},
                     delivered |-> Answered(resp)]
    /\ UNCHANGED <<poolVars, procVars, searchVars, allIndexes, idSeed, IndexDuration, dirs,
                   docs, lastest, isNewUpdates, lastIndex, hung, calls, lastSweep, batcher,
                   serviceVars>>

\* Engine.FieldDict(ctx, startTime, endTime, field): the values the selected
\* partitions hold (an event's value is taken to be its reception instant);
\* bleve.ErrorAliasEmpty when no partition is selected.
FieldDict(startTime, endTime) ==
    LET indexes == getIndexs(allIndexes, startTime, endTime) IN
    IF Len(indexes) = 0 THEN [err |-> "ErrorAliasEmpty", dict |-> {}]
    ELSE [err |-> "nil", dict |-> {d.t : d \in StoredIn(indexes)}]

\* GroupBy(searcher, ctx, startAt, endAt, q, field, cb): one search per entry
\* of the dictionary; an empty selection is answered with empty statistics.
GroupBy(startAt, endAt, q) ==
    /\ lastQuery = NoQuery
    /\ LET fd == FieldDict(startAt, endAt)
           hits == Query(startAt, endAt, q).hits IN
       lastQuery' = [op |-> "GroupBy", startTime |-> startAt, endTime |-> endAt,
                     query |-> q, err |-> "nil",
                     results |-> {[name |-> term, counted |-> {d \in hits : d.t = term}] :
                                     term \in fd.dict},
                     delivered |-> TRUE]
    /\ UNCHANGED <<poolVars, procVars, searchVars, allIndexes, idSeed, IndexDuration, dirs,
                   docs, lastest, isNewUpdates, lastIndex, hung, calls, lastSweep, batcher,
                   serviceVars>>

\* The queries the callers of the group-by functions pass.
GroupQueries == {[kind |-> "match", of |-> Times], [kind |-> "match", of |-> {1}]}

NextGroupBy ==
    \/ \E startAt \in Times, endAt \in 0..(MaxTime + 1), q \in GroupQueries :
          GroupBy(startAt, endAt, q)
    \/ \E startAt \in Times, endAt \in 0..(MaxTime + 1), q \in GroupQueries,
          start \in 0..1, end \in 0..MaxEnd, step \in 1..MaxStep :
          GroupByNumeric(startAt, endAt, q, start, end, step)
    \/ \E startAt \in Times, endAt \in 0..(MaxTime + 1), q \in GroupQueries,
          value \in 1..MaxStep : GroupByTime(startAt, endAt, q, value)

\* NewEngine and Engine.Open over a data directory whose partitions hold an
\* event received at each of their instants.
InitGroupBy ==
    /\ InitPoolVars
    /\ InitProcVars
    /\ IndexDuration \in Durations
    /\ dirs \in MixedDirs
    /\ \E order \in Perms(dirs) : allIndexes = OpenLazyIndexes(order, 1, <<>>)
    /\ idSeed = Cardinality(dirs)
    /\ docs = {d \in StoredDocs(dirs) : d.startTime <= d.t /\ d.t < d.endTime}
    /\ lastest = NoLease
    /\ isNewUpdates = {}
    /\ lastIndex = NoIndex
    /\ hung = FALSE
    /\ calls = 0
    /\ lastSweep = NoSweep
    /\ lastQuery = NoQuery
    /\ batcher = NewBatcher
    /\ metaStore = NewMetaStore
    /\ scheduler = NewService
    /\ input = NoInput
    /\ registry = NoRegistry

SpecGroupBy == InitGroupBy /\ [][NextGroupBy]_vars

\* --------------------------------------------------------------- batcher
Range(q) == {q[k] : k \in 1..Len(q)}

\* What b.indexer.Index can return to the batcher: nil or an error.
IndexResults(b) == {ok \in BOOLEAN : ok \/ b.failures < MaxIndexErrors}

\* send(), lines 333-345.  Index over a batch that holds a zero Document
\* panics at ev.ReferenceTime(); the deferred CloseWith(&ctx) then runs and the
\* process dies.  A failed call returns before the batch is reset and before
\* anything is sent on errChan; a successful one sends its nil error.  After a
\* success the Continuation holds a lease or not (pin), as Index left it.
send(b, ok, pin) ==
    LET b1 == [b EXCEPT !.flushes = @ + 1, !.handed = @ \cup Range(b.batch)] IN
    IF NilDocument \in Range(b.batch)
      THEN [b1 EXCEPT !.panicked = TRUE, !.running = FALSE, !.pinned = FALSE]
    ELSE IF ~ok THEN [b1 EXCEPT !.failures = @ + 1, !.lastErr = TRUE]
    ELSE [b1 EXCEPT !.lastErr = FALSE,
                    !.indexed = @ \cup Range(b.batch),
                    !.pinned = IF b.batch = <<>> THEN @ ELSE pin,
                    !.sent = IF b.errChan THEN Append(@, "nil") ELSE @,
                    !.batch = <<>>]

\* timer.Reset(b.duration) and timer.Stop(): a value that already waits in
\* timer.C stays there or is dropped, as the Go release has it.
TimerReset(b, drain) == [b EXCEPT !.timer = "armed", !.timerC = @ /\ ~drain]
TimerStop(b, drain) == [b EXCEPT !.timer = "stopped", !.timerC = @ /\ ~drain]

\* Batcher.Start(errChan): the goroutine starts with an empty batch and a
\* stopped timer.
Start(errChan) ==
    /\ ~batcher.started
    /\ batcher' = [batcher EXCEPT !.started = TRUE, !.running = TRUE, !.errChan = errChan]
    /\ UNCHANGED <<poolVars, procVars, searchVars, allIndexes, idSeed, IndexDuration, dirs,
                   docs, lastest, isNewUpdates, lastIndex, hung, calls, lastSweep, lastQuery,
                   serviceVars>>

\* A producer sends the next event on b.C(); it blocks while the channel is full.
Produce ==
    /\ ~batcher.closed
    /\ Len(batcher.c) < MaxOutstanding
    /\ batcher.accepted < MaxEvents
    /\ batcher' = [batcher EXCEPT !.c = Append(@, batcher.accepted + 1),
                                  !.accepted = @ + 1]
    /\ UNCHANGED <<poolVars, procVars, searchVars, allIndexes, idSeed, IndexDuration, dirs,
                   docs, lastest, isNewUpdates, lastIndex, hung, calls, lastSweep, lastQuery,
                   serviceVars>>

\* case event := <-b.c, lines 350-358; a closed and empty channel yields the
\* zero Document.
Receive(ok, pin, drain) ==
    /\ batcher.running
    /\ batcher.c # <<>> \/ (batcher.closed /\ Len(batcher.batch) < MaxBuffered)
    /\ LET event == IF batcher.c # <<>> THEN Head(batcher.c) ELSE NilDocument
           b1 == [batcher EXCEPT !.c = IF @ # <<>> THEN Tail(@) ELSE @,
                                 !.batch = Append(@, event)]
           b2 == IF Len(b1.batch) = 1 THEN TimerReset(b1, drain) ELSE b1 IN
       batcher' = IF Len(b2.batch) = BatchSize THEN send(TimerStop(b2, drain), ok, pin)
                  ELSE b2
    /\ UNCHANGED <<poolVars, procVars, searchVars, allIndexes, idSeed, IndexDuration, dirs,
                   docs, lastest, isNewUpdates, lastIndex, hung, calls, lastSweep, lastQuery,
                   serviceVars>>

\* case <-timer.C, lines 359-361.
Timeout(ok, pin) ==
    /\ batcher.running
    /\ batcher.timerC
    /\ batcher' = send([batcher EXCEPT !.timerC = FALSE], ok, pin)
    /\ UNCHANGED <<poolVars, procVars, searchVars, allIndexes, idSeed, IndexDuration, dirs,
                   docs, lastest, isNewUpdates, lastIndex, hung, calls, lastSweep, lastQuery,
                   serviceVars>>

\* b.duration has passed since the timer was reset.
Fire ==
    /\ batcher.timer = "armed"
    /\ batcher' = [batcher EXCEPT !.timer = "stopped", !.timerC = TRUE]
    /\ UNCHANGED <<poolVars, procVars, searchVars, allIndexes, idSeed, IndexDuration, dirs,
                   docs, lastest, isNewUpdates, lastIndex, hung, calls, lastSweep, lastQuery,
                   serviceVars>>

\* Batcher.Stop(): close(b.c).
Stop ==
    /\ ~batcher.closed
    /\ batcher' = [batcher EXCEPT !.closed = TRUE]
    /\ UNCHANGED <<poolVars, procVars, searchVars, allIndexes, idSeed, IndexDuration, dirs,
                   docs, lastest, isNewUpdates, lastIndex, hung, calls, lastSweep, lastQuery,
                   serviceVars>>

Receives == \E ok \in IndexResults(batcher), pin \in BOOLEAN, drain \in BOOLEAN :
                Receive(ok, pin, drain)
Timeouts == \E ok \in IndexResults(batcher), pin \in BOOLEAN : Timeout(ok, pin)
Starts == \E errChan \in BOOLEAN : Start(errChan)

NextBatcher ==
    \/ Starts
    \/ Produce
    \/ Receives
    \/ Timeouts
    \/ Fire
    \/ Stop

InitBatcher ==
    /\ InitPoolVars
    /\ InitProcVars
    /\ InitEngineVars
    /\ IndexDuration = ShortDuration

\* The goroutine is started and scheduled, and an armed timer fires.
SpecBatcher ==
    /\ InitBatcher
    /\ [][NextBatcher]_vars
    /\ WF_vars(Starts)
    /\ WF_vars(Receives)
    /\ WF_vars(Timeouts)
    /\ WF_vars(Fire)

\* ---------------------------------------------------- continuous queries
MaxInterval == 2
MaxClock == 6
NilCallback == 0

\* The types for which Register(typ, create) was called.
factory == {"registered"}

\* AlignTime(t, interval): the loop that adds interval while now is before t.
RECURSIVE AlignLoop(_, _, _)
AlignLoop(now, t, interval) ==
    IF now < t THEN AlignLoop(now + interval, t, interval) ELSE now

\* Mutant of AlignTime: the truncated time is returned as it is.
AlignTime_Truncated(t, interval) == (t \div interval) * interval

\* AlignTime(t, interval)
AlignTime(t, interval) == AlignLoop((t \div interval) * interval, t, interval)

\* Mutant of Due: a boundary equal to the tick's time is run as well.
Due_OrEqual(endAt, now) == endAt <= now

\* The condition of RunLoop's inner loop: endAt.Before(now).
Due(endAt, now) == endAt < now

\* A ContinuousQuery with its targets, before its callback chain is built.
CQ(targets) == [Targets |-> targets, Callback |-> NilCallback]

\* A Query: its name and its map of continuous queries; ref tells the Go maps
\* apart (two Query values with the same ref share one map, 0 is the nil map).
SavedQuery(name, cqs, ref) == [Name |-> name, ContinuousQueries |-> cqs, ref |-> ref]

\* What MetaStore.save writes of the queries qs: json.Marshal leaves out the
\* Callback (`json:"-"`), and every query is written with its own map.
Saved(qs) ==
    [id \in DOMAIN qs |->
        [Name |-> qs[id].Name,
         ContinuousQueries |->
             [key \in DOMAIN qs[id].ContinuousQueries |->
                 [Targets |-> qs[id].ContinuousQueries[key].Targets]]]]

\* The meta stores RunLoop is started over: what MetaStore.Load read.
SavedStores ==
    { (1 :> SavedQuery(1, (1 :> CQ(<<"registered">>)
                              @@ 2 :> CQ(<<"registered", "registered">>)), 1)),
      (1 :> SavedQuery(1, (1 :> CQ(<<"registered">>)), 1)
          @@ 2 :> SavedQuery(2, (3 :> CQ(<<"registered", "unknown">>)), 2)),
      (1 :> SavedQuery(1, <<>>, 0) @@ 2 :> SavedQuery(2, (1 :> CQ(<<"registered">>)), 2)) }

\* The first target of targets whose type has no factory, 0 when all have.
Unsupported(targets) ==
    IF \E k \in 1..Len(targets) : targets[k] \notin factory
      THEN CHOOSE k \in 1..Len(targets) :
               /\ targets[k] \notin factory
               /\ \A l \in 1..(k - 1) : targets[l] \in factory
    ELSE 0

\* Service.createCallBack(cq): the callback, the error, the number of factory
\* calls made, and cq as the call leaves it.
createCallBack(cq) ==
    IF cq.Callback # NilCallback
      THEN [cb |-> cq.Callback, err |-> "nil", made |-> 0, cq |-> cq]
    ELSE IF Unsupported(cq.Targets) # 0
      THEN [cb |-> NilCallback, err |-> "unsupported", made |-> Unsupported(cq.Targets) - 1,
            cq |-> cq]
    ELSE [cb |-> 1, err |-> "nil", made |-> Len(cq.Targets), cq |-> [cq EXCEPT !.Callback = 1]]

\* The <<query, cq>> pairs runContinuousQueries goes through.
Children(qs) ==
    {c \in (DOMAIN qs) \X UNION {DOMAIN qs[i].ContinuousQueries : i \in DOMAIN qs} :
        c[2] \in DOMAIN qs[c[1]].ContinuousQueries}

\* The orders in which the two range loops over Go maps can go through them:
\* the queries in any order, the CQs of one query together, in any order.
ChildOrders(qs) ==
    {p \in Perms(Children(qs)) :
        \A i, j, k \in 1..Len(p) : i < j /\ j < k /\ p[i][1] = p[k][1] => p[j][1] = p[i][1]}

\* Service.runQuery, lines 238-240: the query of one window.
timeQuery(startTime, endTime) == DateRangeInclusiveQuery(startTime, endTime)

\* RunLoop up to the select: the ticker is created and lastAt aligned.
RunLoop ==
    /\ scheduler.pc = "new"
    /\ scheduler' = [scheduler EXCEPT
           !.pc = "select",
           !.nextTick = scheduler.clock + scheduler.runInterval,
           !.lastAt = AlignTime(scheduler.clock, scheduler.runInterval),
           !.startedAt = scheduler.clock,
           !.alignedAt = AlignTime(scheduler.clock, scheduler.runInterval)]
    /\ UNCHANGED <<poolVars, procVars, searchVars, allIndexes, idSeed, IndexDuration, dirs,
                   docs, lastest, isNewUpdates, lastIndex, hung, calls, lastSweep, lastQuery,
                   batcher, metaStore, input, registry>>

\* Time passes; a time.Ticker sends the time into t.C when its period is
\* over and drops the tick when the one before is still waiting.
Clock ==
    /\ scheduler.pc \notin {"new", "returned"}
    /\ scheduler.clock < MaxClock
    /\ scheduler' = [scheduler EXCEPT
           !.clock = @ + 1,
           !.tickC = IF scheduler.clock + 1 = scheduler.nextTick /\ @ = NilTick
                       THEN scheduler.clock + 1 ELSE @,
           !.nextTick = IF scheduler.clock + 1 = @ THEN @ + scheduler.runInterval ELSE @]
    /\ UNCHANGED <<poolVars, procVars, searchVars, allIndexes, idSeed, IndexDuration, dirs,
                   docs, lastest, isNewUpdates, lastIndex, hung, calls, lastSweep, lastQuery,
                   batcher, metaStore, input, registry>>

\* The owner of the stop channel closes it.
CloseStop ==
    /\ scheduler.pc # "new"
    /\ ~scheduler.stop
    /\ scheduler' = [scheduler EXCEPT !.stop = TRUE]
    /\ UNCHANGED <<poolVars, procVars, searchVars, allIndexes, idSeed, IndexDuration, dirs,
                   docs, lastest, isNewUpdates, lastIndex, hung, calls, lastSweep, lastQuery,
                   batcher, metaStore, input, registry>>

\* case <-stop: return
Return ==
    /\ scheduler.pc = "select"
    /\ scheduler.stop
    /\ scheduler' = [scheduler EXCEPT !.pc = "returned"]
    /\ UNCHANGED <<poolVars, procVars, searchVars, allIndexes, idSeed, IndexDuration, dirs,
                   docs, lastest, isNewUpdates, lastIndex, hung, calls, lastSweep, lastQuery,
                   batcher, metaStore, input, registry>>

\* case now := <-t.C: endAt := lastAt.Add(s.runInterval)
Tick ==
    /\ scheduler.pc = "select"
    /\ scheduler.tickC # NilTick
    /\ scheduler' = [scheduler EXCEPT
           !.pc = "loop",
           !.now = scheduler.tickC,
           !.tickC = NilTick,
           !.endAt = scheduler.lastAt + scheduler.runInterval,
           !.ticked = TRUE,
           !.tickLastAt = scheduler.lastAt,
           !.tickFrom = Len(scheduler.windows)]
    /\ UNCHANGED <<poolVars, procVars, searchVars, allIndexes, idSeed, IndexDuration, dirs,
                   docs, lastest, isNewUpdates, lastIndex, hung, calls, lastSweep, lastQuery,
                   batcher, metaStore, input, registry>>

\* The test of the inner loop, and runContinuousQueries up to its first
\* runQuery: the children are collected; with none the window is over.
Window ==
    /\ scheduler.pc = "loop"
    /\ IF Due(scheduler.endAt, scheduler.now)
         THEN \E order \in ChildOrders(metaStore.queries) :
                scheduler' = [scheduler EXCEPT
                    !.windows = Append(@, [startAt |-> scheduler.lastAt,
                                           endAt |-> scheduler.endAt,
                                           now |-> scheduler.now]),
                    !.pending = order,
                    !.pc = IF order = <<>> THEN "loop" ELSE "run",
                    !.lastAt = IF order = <<>> THEN scheduler.endAt ELSE @,
                    !.endAt = IF order = <<>> THEN @ + scheduler.runInterval ELSE @]
       ELSE scheduler' = [scheduler EXCEPT !.pc = "select"]
    /\ UNCHANGED <<poolVars, procVars, searchVars, allIndexes, idSeed, IndexDuration, dirs,
                   docs, lastest, isNewUpdates, lastIndex, hung, calls, lastSweep, lastQuery,
                   batcher, metaStore, input, registry>>

\* One turn of runQuery's loop over qu.ContinuousQueries: cq is the loop's
\* copy of the map's value, so what createCallBack assigns to it is not
\* stored; after the last child, lastAt = endAt and endAt = lastAt + interval.
RunChild ==
    /\ scheduler.pc = "run"
    /\ LET key == Head(scheduler.pending)
           cq == metaStore.queries[key[1]].ContinuousQueries[key[2]]
           made == createCallBack(cq)
           q == timeQuery(scheduler.lastAt, scheduler.endAt)
           resp == Query(scheduler.lastAt, scheduler.endAt, q)
           last == Len(scheduler.pending) = 1 IN
       scheduler' = [scheduler EXCEPT
           !.evals = Append(@, [key |-> key, startTime |-> scheduler.lastAt,
                                endTime |-> scheduler.endAt, q |-> q,
                                stop |-> scheduler.stop, made |-> made.made,
                                err |-> IF made.err # "nil" THEN made.err ELSE resp.err,
                                hits |-> IF made.err # "nil" THEN {} ELSE resp.hits]),
           !.pending = Tail(@),
           !.pc = IF last THEN "loop" ELSE @,
           !.lastAt = IF last THEN scheduler.endAt ELSE @,
           !.endAt = IF last THEN @ + scheduler.runInterval ELSE @]
    /\ UNCHANGED <<poolVars, procVars, searchVars, allIndexes, idSeed, IndexDuration, dirs,
                   docs, lastest, isNewUpdates, lastIndex, hung, calls, lastSweep, lastQuery,
                   batcher, metaStore, input, registry>>

NextCQ ==
    \/ RunLoop
    \/ Clock
    \/ CloseStop
    \/ Return
    \/ Tick
    \/ Window
    \/ RunChild

\* NewService over an engine whose partition [0, LongDuration) holds an event
\* received at each of its instants, and over a loaded meta store.
InitCQ ==
    /\ InitPoolVars
    /\ InitProcVars
    /\ IndexDuration = LongDuration
    /\ dirs = {[startTime |-> 0, endTime |-> LongDuration]}
    /\ \E order \in Perms(dirs) : allIndexes = OpenLazyIndexes(order, 1, <<>>)
    /\ idSeed = Cardinality(dirs)
    /\ docs = {d \in StoredDocs(dirs) : d.startTime <= d.t /\ d.t < d.endTime}
    /\ lastest = NoLease
    /\ isNewUpdates = {}
    /\ lastIndex = NoIndex
    /\ hung = FALSE
    /\ calls = 0
    /\ lastSweep = NoSweep
    /\ lastQuery = NoQuery
    /\ batcher = NewBatcher
    /\ \E qs \in SavedStores : metaStore = [queries |-> qs, file |-> Saved(qs), failures |-> 0]
    /\ \E interval \in 1..MaxInterval, t \in 0..1 :
         scheduler = [NewService EXCEPT !.runInterval = interval, !.clock = t]
    /\ input = NoInput
    /\ registry = NoRegistry

\* The Go scheduler runs the goroutine of RunLoop, time passes, and a select
\* with two ready cases takes either.
SpecCQ ==
    InitCQ /\ [][NextCQ]_vars /\ WF_vars(RunLoop) /\ WF_vars(Window) /\ WF_vars(RunChild)
           /\ SF_vars(Return)



\* ------------------------------------------------------------- meta store
MaxIds == 3
MaxNames == 2
MaxSaveFailures == 1

\* The ids in use in the queries qs: those of the queries and of their
\* continuous queries.
UsedIds(qs) == DOMAIN qs \cup UNION {DOMAIN qs[i].ContinuousQueries : i \in DOMAIN qs}

\* GenerateID(): the ids it can return, none of them in use.
GenerateID(qs) == (1..MaxIds) \ UsedIds(qs)

\* A Go map made by this call: a ref no query holds.
NewRef(qs) ==
    CHOOSE r \in 1..(Cardinality(DOMAIN qs) + 1) :
        /\ \A i \in DOMAIN qs : qs[i].ref # r
        /\ \A x \in 1..(r - 1) : \E i \in DOMAIN qs : qs[i].ref = x

\* The queries callers pass to CreateQuery and UpdateQuery, and the
\* continuous queries they pass to CreateCQ and UpdateCQ.
NewQueries == {SavedQuery(name, <<>>, 0) : name \in 1..MaxNames}
NewCQs == {CQ(<<"registered">>), CQ(<<"unknown">>)}

\* The queries qs after the Go map ref has been given the content cqs: every
\* Query value that holds the map sees it.
WithMap(qs, ref, cqs) ==
    [i \in DOMAIN qs |->
        IF qs[i].ref = ref THEN [qs[i] EXCEPT !.ContinuousQueries = cqs] ELSE qs[i]]

\* MetaStore.save after h.queries has become qs: the file is replaced unless
\* writing it fails.
save(qs, ok) ==
    /\ ok \/ metaStore.failures < MaxSaveFailures
    /\ metaStore' = [queries |-> qs,
                     file |-> IF ok THEN Saved(qs) ELSE metaStore.file,
                     failures |-> IF ok THEN metaStore.failures ELSE metaStore.failures + 1]
    /\ UNCHANGED <<poolVars, procVars, searchVars, allIndexes, idSeed, IndexDuration, dirs,
                   docs, lastest, isNewUpdates, lastIndex, hung, calls, lastSweep, lastQuery,
                   batcher, scheduler, input, registry>>

\* MetaStore.CreateQuery(q)
CreateQuery(q, ok) ==
    LET qs == metaStore.queries IN
    IF \E i \in DOMAIN qs : qs[i].Name = q.Name
      THEN UNCHANGED vars
    ELSE \E id \in GenerateID(qs) : save((id :> q) @@ qs, ok)

\* MetaStore.DeleteQuery(id)
DeleteQuery(id, ok) ==
    LET qs == metaStore.queries IN
    IF id \in DOMAIN qs
      THEN save([i \in DOMAIN qs \ {id} |-> qs[i]], ok)
    ELSE UNCHANGED vars

\* MetaStore.UpdateQuery(id, q)
UpdateQuery(id, q, ok) ==
    LET qs == metaStore.queries IN
    IF id \notin DOMAIN qs
      THEN UNCHANGED vars
    ELSE IF \E key \in DOMAIN qs : qs[key].Name = q.Name /\ id # key
      THEN UNCHANGED vars
    ELSE save([qs EXCEPT ![id] = q], ok)

\* MetaStore.CreateCQ(query, cq): the continuous query is put into the map of
\* the local copy q (a new map when the query had none), and q is stored
\* under the id of the continuous query.
CreateCQ(query, cq, ok) ==
    LET qs == metaStore.queries IN
    IF query \notin DOMAIN qs
      THEN UNCHANGED vars
    ELSE \E id \in GenerateID(qs) :
           LET q == IF qs[query].ref = 0
                      THEN [qs[query] EXCEPT !.ref = NewRef(qs)]
                    ELSE qs[query]
               cqs == (id :> cq) @@ q.ContinuousQueries IN
           save(WithMap((id :> q) @@ qs, q.ref, cqs), ok)

\* MetaStore.DeleteCQ(query, id)
DeleteCQ(query, id, ok) ==
    LET qs == metaStore.queries IN
    IF query \notin DOMAIN qs \/ qs[query].ref = 0
      THEN UNCHANGED vars
    ELSE LET q == qs[query]
             cqs == [key \in DOMAIN q.ContinuousQueries \ {id} |-> q.ContinuousQueries[key]] IN
         save(WithMap(qs, q.ref, cqs), ok)

\* MetaStore.UpdateCQ(query, id, cq)
UpdateCQ(query, id, cq, ok) ==
    LET qs == metaStore.queries IN
    IF query \notin DOMAIN qs \/ qs[query].ref = 0
      THEN UNCHANGED vars
    ELSE IF id \notin DOMAIN qs[query].ContinuousQueries
      THEN UNCHANGED vars
    ELSE save(WithMap(qs, qs[query].ref, [qs[query].ContinuousQueries EXCEPT ![id] = cq]), ok)

NextMeta ==
    \/ \E q \in NewQueries, ok \in BOOLEAN : CreateQuery(q, ok)
    \/ \E id \in 1..MaxIds, ok \in BOOLEAN : DeleteQuery(id, ok)
    \/ \E id \in 1..MaxIds, q \in NewQueries, ok \in BOOLEAN : UpdateQuery(id, q, ok)
    \/ \E query \in 1..MaxIds, cq \in NewCQs, ok \in BOOLEAN : CreateCQ(query, cq, ok)
    \/ \E query \in 1..MaxIds, id \in 1..MaxIds, ok \in BOOLEAN : DeleteCQ(query, id, ok)
    \/ \E query \in 1..MaxIds, id \in 1..MaxIds, cq \in NewCQs, ok \in BOOLEAN :
          UpdateCQ(query, id, cq, ok)

\* NewMetaStore over a data path without a file.
InitMeta == InitPoolVars /\ InitProcVars /\ InitEngineVars /\ IndexDuration = ShortDuration

SpecMeta == InitMeta /\ [][NextMeta]_vars


\* ------------------------------------------------------------ document ids
\* The ids are modelled with IdDigits digits of base IdBase for each half, in
\* place of the 16 hexadecimal digits of a uint64.
IdBase == 4
IdDigits == 2
MaxIdEvents == 2

RECURSIVE Power(_, _)
Power(b, n) == IF n = 0 THEN 1 ELSE b * Power(b, n - 1)

\* The number of values of the unsigned word a half of the id shows (2^64),
\* and of the int32 of sequenceID.
Word == Power(IdBase, IdDigits)
Word32 == Power(IdBase, IdDigits - 1)

\* The values of an int64: UnixNano() and Event.Sequence.
Int64 == (0 - (Word \div 2))..((Word \div 2) - 1)

\* uint64(x) of an int64 x.
Uint64(x) == x % Word

\* atomic.AddInt32(&sequenceID, 1): the int32 after sequenceID, wrapping.
AddInt32(n) == ((n + 1 + (Word32 \div 2)) % Word32) - (Word32 \div 2)

\* fmt.Sprintf("%016x", v): the digits of v, the most significant first,
\* padded with zeros to the full width.
Sprintf016x(v) == [k \in 1..IdDigits |-> (v \div Power(IdBase, IdDigits - k)) % IdBase]

\* The DocID of an event with the reference time t (UnixNano) and the
\* sequence seq.
DocID(t, seq) == Sprintf016x(Uint64(t)) \o Sprintf016x(Uint64(seq))

\* Event.ID(): an event without sequence is given the next sequenceID first.
EventID(t, seq) ==
    /\ Len(input.ids) < MaxIdEvents
    /\ LET Sequence == IF seq = 0 THEN AddInt32(input.sequenceID) ELSE seq IN
       input' = [sequenceID |-> IF seq = 0 THEN AddInt32(input.sequenceID)
                                ELSE input.sequenceID,
                 ids |-> Append(input.ids, [t |-> t, seq |-> Sequence,
                                            id |-> DocID(t, Sequence)])]
    /\ UNCHANGED <<poolVars, procVars, searchVars, allIndexes, idSeed, IndexDuration, dirs,
                   docs, lastest, isNewUpdates, lastIndex, hung, calls, lastSweep, lastQuery,
                   batcher, metaStore, scheduler, registry>>

\* mapEvent.ID()
mapEventID(t, seq) ==
    /\ Len(input.ids) < MaxIdEvents
    /\ input' = [input EXCEPT
           !.ids = Append(@, [t |-> t, seq |-> seq, id |-> DocID(t, seq)])]
    /\ UNCHANGED <<poolVars, procVars, searchVars, allIndexes, idSeed, IndexDuration, dirs,
                   docs, lastest, isNewUpdates, lastIndex, hung, calls, lastSweep, lastQuery,
                   batcher, metaStore, scheduler, registry>>

NextInput ==
    \/ \E t \in Int64, seq \in Int64 : EventID(t, seq)
    \/ \E t \in Int64, seq \in Int64 : mapEventID(t, seq)

SpecInput == InitMeta /\ [][NextInput]_vars

\* ------------------------------------------------------- the facet loops
MaxBuckets == 4

\* An int64 sum, wrapping.
WrapInt64(x) == ((x + (Word \div 2)) % Word) - (Word \div 2)

\* Another bucket appended to the ranges of the facet request.
Added(n) == IF n < MaxBuckets THEN n + 1 ELSE n

\* Server.groupByNumeric: start, end and step are what strconv.ParseInt read;
\* GroupByNumeric calls facetByNumericRange, lines 244-246.
FacetNumericCall(start, end, interval) ==
    /\ lastQuery = NoQuery
    /\ lastQuery' = [op |-> "facetByNumericRange", end |-> end, step |-> interval,
                     nextStart |-> start, nextEnd |-> WrapInt64(start + interval),
                     n |-> 0, done |-> FALSE]
    /\ UNCHANGED <<poolVars, procVars, searchVars, allIndexes, idSeed, IndexDuration, dirs,
                   docs, lastest, isNewUpdates, lastIndex, hung, calls, lastSweep, batcher,
                   serviceVars>>

\* facetByNumericRange lines 248-263: the loop test and one pass of the body,
\* or the return.
FacetNumericStep ==
    /\ lastQuery # NoQuery
    /\ lastQuery.op = "facetByNumericRange"
    /\ ~lastQuery.done
    /\ lastQuery' = IF lastQuery.nextEnd <= lastQuery.end
                      THEN [lastQuery EXCEPT !.nextStart = lastQuery.nextEnd,
                                             !.nextEnd = WrapInt64(lastQuery.nextEnd
                                                                       + lastQuery.step),
                                             !.n = Added(@)]
                      ELSE [lastQuery EXCEPT !.done = TRUE]
    /\ UNCHANGED <<poolVars, procVars, searchVars, allIndexes, idSeed, IndexDuration, dirs,
                   docs, lastest, isNewUpdates, lastIndex, hung, calls, lastSweep, batcher,
                   serviceVars>>

\* Server.groupByTimestamp: value is what time.ParseDuration read; GroupByTime
\* calls facetByTime, lines 224-227.
FacetTimeCall(startAt, endAt, value) ==
    /\ lastQuery = NoQuery
    /\ lastQuery' = [op |-> "facetByTime", end |-> endAt, step |-> value,
                     nextStart |-> startAt, nextEnd |-> startAt + value,
                     n |-> 0, done |-> FALSE]
    /\ UNCHANGED <<poolVars, procVars, searchVars, allIndexes, idSeed, IndexDuration, dirs,
                   docs, lastest, isNewUpdates, lastIndex, hung, calls, lastSweep, batcher,
                   serviceVars>>

\* facetByTime lines 229-238: the loop test and one pass of the body, or the
\* return.
FacetTimeStep ==
    /\ lastQuery # NoQuery
    /\ lastQuery.op = "facetByTime"
    /\ ~lastQuery.done
    /\ lastQuery' = IF lastQuery.nextEnd < lastQuery.end
                      THEN [lastQuery EXCEPT !.nextStart = lastQuery.nextEnd,
                                             !.nextEnd = lastQuery.nextEnd + lastQuery.step,
                                             !.n = Added(@)]
                      ELSE [lastQuery EXCEPT !.done = TRUE]
    /\ UNCHANGED <<poolVars, procVars, searchVars, allIndexes, idSeed, IndexDuration, dirs,
                   docs, lastest, isNewUpdates, lastIndex, hung, calls, lastSweep, batcher,
                   serviceVars>>

NextFacet ==
    \/ \E start \in (0 - 1)..1, end \in (0 - 1)..MaxEnd, interval \in (0 - 1)..MaxStep :
          FacetNumericCall(start, end, interval)
    \/ FacetNumericStep
    \/ \E startAt \in Times, endAt \in 0..(MaxTime + 1), value \in 0..MaxStep :
          FacetTimeCall(startAt, endAt, value)
    \/ FacetTimeStep

\* The goroutine of the request runs until the function returns.
SpecFacet ==
    InitMeta /\ [][NextFacet]_vars /\ WF_vars(FacetNumericStep) /\ WF_vars(FacetTimeStep)

\* ------------------------------------------------------------ loader.mu
MaxTotals == 1
MaxLockSweeps == 1

\* sync.RWMutex: RLock returns when no goroutine holds or waits for the
\* write lock (a pending Lock keeps new readers out); Lock returns when no
\* goroutine holds the lock in either mode.
RLockable(m) == m.writer = "" /\ m.waiting = {} /\ m.updating = {}
Lockable(m) == m.writer = "" /\ \A p \in Tasks : m.readers[p] = 0

\* The goroutines that never take loader.mu in this specification.
lockFrame == <<isClosed, procVars, searchVars, IndexDuration, lastest, lastIndex, hung,
               lastQuery, batcher, metaStore, scheduler, input>>

\* The backing array of loader.allIndexes after the filter loop of
\* enforceRetention has appended the kept descriptors to allIndexes[:0]:
\* the kept ones in front, the old elements behind them.
Compacted(arr, filtered) == filtered \o SubSeq(arr, Len(filtered) + 1, Len(arr))

\* What a reader that holds the read lock finds at position k of the array
\* while the filter loop of enforceRetention may be writing it.
Elems(k) ==
    {registry.arr[k]} \cup
        (IF registry.pc["sweep"] = "assign"
           THEN {Compacted(registry.arr, registry.filtered)[k]} ELSE {})

\* loader.indexForReferenceTime(t) by a reader, while the filter loop may
\* be moving the descriptors.
Lookups(t) ==
    {indexForReferenceTime(allIndexes, t)} \cup
        (IF registry.pc["sweep"] = "assign"
           THEN {indexForReferenceTime(registry.filtered, t), 0} ELSE {})

\* Mutant of Recheck: the registry is not looked up again.
Recheck_Skipped(all, t) == 0

\* Engine.Index line 547: the second lookup, under the write lock.
Recheck(all, t) == indexForReferenceTime(all, t)

\* Engine.Index is called with one event of reference time t: Do calls
\* loader.mu.RLock().
IndexCall(p, t) ==
    /\ registry.pc[p] = "idle"
    /\ calls < MaxCalls
    /\ calls' = calls + 1
    /\ registry' = [registry EXCEPT !.pc[p] = "do.rlock", !.t[p] = t,
                                    !.switched[p] = FALSE, !.made[p] = 0]
    /\ UNCHANGED <<lockFrame, resources, stores, allIndexes, idSeed, dirs, docs,
                   isNewUpdates, lastSweep>>

\* Do line 264: RLock returns.
IndexEnter(p) ==
    /\ registry.pc[p] = "do.rlock"
    /\ RLockable(registry)
    /\ registry' = [registry EXCEPT !.pc[p] = "lookup", !.readers[p] = @ + 1]
    /\ UNCHANGED <<lockFrame, resources, stores, allIndexes, idSeed, dirs, docs,
                   isNewUpdates, calls, lastSweep>>

\* Engine.Index lines 541-545 and switchFunc up to its call of Lock().
IndexLookup(p) ==
    /\ registry.pc[p] = "lookup"
    /\ \E found \in Lookups(registry.t[p]) :
         registry' = IF found # 0
                       THEN [registry EXCEPT !.pc[p] = "unlock"]
                       ELSE [registry EXCEPT !.pc[p] = "switch", !.readers[p] = @ - 1,
                                             !.waiting = @ \cup {p},
                                             !.switched[p] = TRUE]
    /\ UNCHANGED <<lockFrame, resources, stores, allIndexes, idSeed, dirs, docs,
                   isNewUpdates, calls, lastSweep>>

\* switchFunc: Lock() returns, isReadonly = false.
IndexSwitch(p) ==
    /\ registry.pc[p] = "switch"
    /\ Lockable(registry)
    /\ registry' = [registry EXCEPT !.pc[p] = "recheck", !.writer = p,
                                    !.waiting = @ \ {p}]
    /\ UNCHANGED <<lockFrame, resources, stores, allIndexes, idSeed, dirs, docs,
                   isNewUpdates, calls, lastSweep>>

\* Engine.Index lines 547-552.
IndexRecheck(p) ==
    /\ registry.pc[p] = "recheck"
    /\ LET t == registry.t[p]
           start == Truncate(t, IndexDuration)
           c == createIndex(allIndexes, idSeed, start, start + IndexDuration) IN
       IF Recheck(allIndexes, t) # 0 \/ c.panic
         THEN /\ registry' = [registry EXCEPT !.pc[p] = "unlock"]
              /\ UNCHANGED <<allIndexes, idSeed>>
         ELSE /\ allIndexes' = c.all
              /\ idSeed' = c.seed
              /\ registry' = [registry EXCEPT !.pc[p] = "unlock", !.arr = c.all,
                                              !.made[p] = c.id]
    /\ UNCHANGED <<lockFrame, resources, stores, dirs, docs, isNewUpdates, calls,
                   lastSweep>>

\* Do lines 265-271: the deferred RUnlock or Unlock.
IndexUnlock(p) ==
    /\ registry.pc[p] = "unlock"
    /\ registry' = IF registry.writer = p
                     THEN [registry EXCEPT !.pc[p] = "idle", !.writer = ""]
                     ELSE [registry EXCEPT !.pc[p] = "idle", !.readers[p] = @ - 1]
    /\ UNCHANGED <<lockFrame, resources, stores, allIndexes, idSeed, dirs, docs,
                   isNewUpdates, calls, lastSweep>>

\* Engine.Total is called: Do calls loader.mu.RLock().
TotalCall ==
    /\ registry.pc["total"] = "idle"
    /\ registry.totals < MaxTotals
    /\ registry' = [registry EXCEPT !.pc["total"] = "do.rlock", !.totals = @ + 1,
                                    !.result = [op |-> "none"]]
    /\ UNCHANGED <<lockFrame, resources, stores, allIndexes, idSeed, dirs, docs,
                   isNewUpdates, calls, lastSweep>>

\* Do line 264 returns; Total line 441 evaluates the range expression.
TotalEnter ==
    /\ registry.pc["total"] = "do.rlock"
    /\ RLockable(registry)
    /\ registry' = [registry EXCEPT !.pc["total"] = "range", !.readers["total"] = @ + 1,
                                    !.n = Len(allIndexes), !.k = 1, !.total = 0]
    /\ UNCHANGED <<lockFrame, resources, stores, allIndexes, idSeed, dirs, docs,
                   isNewUpdates, calls, lastSweep>>

\* Total line 441 takes the next descriptor and Load line 294 calls
\* TryAcquire; after the last descriptor Total returns and Do unlocks.
TotalAcquire ==
    /\ registry.pc["total"] = "range"
    /\ IF registry.k > registry.n
         THEN /\ registry' = [registry EXCEPT !.pc["total"] = "idle",
                                              !.readers["total"] = @ - 1,
                                              !.result = [op |-> "Total", err |-> 0,
                                                          total |-> registry.total]]
              /\ UNCHANGED resources
         ELSE \E d \in Elems(registry.k) :
                LET acq == TryAcquire(resources, isClosed, d.id, FALSE) IN
                /\ resources' = acq.res
                /\ registry' = IF acq.kind = "acquired"
                                 THEN [registry EXCEPT !.pc["total"] = "load.rlock",
                                                       !.d = d.id, !.r = acq.r]
                                 ELSE [registry EXCEPT !.pc["total"] = "parked"]
    /\ UNCHANGED <<lockFrame, stores, allIndexes, idSeed, dirs, docs,
                   isNewUpdates, calls, lastSweep>>

\* Load lines 299-342 within Total: loader.mu.RLock() returns, isNew and
\* path are read, RUnlock; the slot is bound; then Total lines 447-448, the
\* count and the deferred CloseWith.  A failed Load ends Total.
TotalLoad ==
    /\ registry.pc["total"] = "load.rlock"
    /\ RLockable(registry)
    /\ \E closeOk \in Outcomes(resources[registry.r].index # Nil), openOk \in BOOLEAN :
         LET r == registry.r
             i == CHOOSE j \in 1..Len(registry.arr) : registry.arr[j].id = registry.d
             li == registry.arr[i]
             out == LoadBind(resources, stores, isClosed, r, closeOk, openOk, TRUE)
             made == out.kind = "lease" /\ out.h # resources[r].index /\ li.isNew
             rel == Release(out.res, out.st, isClosed, r, TRUE)
             cnt == Cardinality({x \in docs : /\ x.startTime = li.startTime
                                           /\ x.endTime = li.endTime}) IN
         /\ out.kind # "full"
         /\ IF out.kind = "error"
              THEN /\ resources' = out.res
                   /\ stores' = Collect(out.st, out.res, <<lastest.index>>)
                   /\ registry' = [registry EXCEPT !.pc["total"] = "idle",
                                                   !.readers["total"] = @ - 1,
                                                   !.r = NoSlot, !.d = 0,
                                                   !.result = [op |-> "Total", err |-> 1,
                                                               total |-> 0]]
                   /\ UNCHANGED <<dirs, isNewUpdates>>
              ELSE /\ resources' = rel.res
                   /\ stores' = Collect(rel.st, rel.res, <<lastest.index>>)
                   /\ dirs' = IF made THEN MakeDir(dirs, li) ELSE dirs
                   /\ isNewUpdates' = IF made THEN isNewUpdates \cup {li.id}
                                              ELSE isNewUpdates
                   /\ registry' = [registry EXCEPT !.pc["total"] = "range",
                                                   !.k = @ + 1, !.r = NoSlot, !.d = 0,
                                                   !.total = @ + cnt]
    /\ UNCHANGED <<lockFrame, allIndexes, idSeed, docs, calls, lastSweep>>

\* The goroutine of Load lines 324-329 calls loader.mu.Lock().
UpdaterLock(id) ==
    /\ id \in isNewUpdates \ registry.updating
    /\ registry' = [registry EXCEPT !.updating = @ \cup {id}]
    /\ UNCHANGED <<lockFrame, resources, stores, allIndexes, idSeed, dirs, docs,
                   isNewUpdates, calls, lastSweep>>

\* Lock() returns to that goroutine: li.isNew = false, Unlock().
UpdaterRun(id) ==
    /\ id \in registry.updating
    /\ Lockable(registry)
    /\ LET done(a) == [j \in 1..Len(a) |->
                          IF a[j].id = id THEN [a[j] EXCEPT !.isNew = FALSE] ELSE a[j]] IN
       /\ allIndexes' = done(allIndexes)
       /\ registry' = [registry EXCEPT !.updating = @ \ {id}, !.arr = done(@)]
    /\ isNewUpdates' = isNewUpdates \ {id}
    /\ UNCHANGED <<lockFrame, resources, stores, idSeed, dirs, docs, calls, lastSweep>>

\* The retention goroutine calls enforceRetention: Do calls RLock().
SweepCall ==
    /\ registry.pc["sweep"] = "idle"
    /\ registry.sweeps < MaxLockSweeps
    /\ registry' = [registry EXCEPT !.pc["sweep"] = "do.rlock", !.sweeps = @ + 1]
    /\ UNCHANGED <<lockFrame, resources, stores, allIndexes, idSeed, dirs, docs,
                   isNewUpdates, calls, lastSweep>>

\* Do line 264 returns to enforceRetention, which never calls switchFunc.
SweepEnter ==
    /\ registry.pc["sweep"] = "do.rlock"
    /\ RLockable(registry)
    /\ registry' = [registry EXCEPT !.pc["sweep"] = "loop", !.readers["sweep"] = @ + 1]
    /\ UNCHANGED <<lockFrame, resources, stores, allIndexes, idSeed, dirs, docs,
                   isNewUpdates, calls, lastSweep>>

\* enforceRetention lines 484-501 when time.Now() reads t: the loop that
\* removes the expired partitions and appends the others to allIndexes[:0].
SweepLoop(t) ==
    /\ registry.pc["sweep"] = "loop"
    /\ LET exp == {i \in 1..Len(allIndexes) : Expired(allIndexes[i], t, RetentionPeriod)} IN
       /\ dirs' = RemoveAll(dirs, allIndexes, exp)
       /\ docs' = {d \in docs : \E x \in dirs' : x.startTime = d.startTime}
       /\ registry' = [registry EXCEPT !.pc["sweep"] = "assign",
                                       !.filtered = Filtered(allIndexes, t, 1)]
    /\ UNCHANGED <<lockFrame, resources, stores, allIndexes, idSeed, isNewUpdates,
                   calls, lastSweep>>

\* enforceRetention line 502: loader.allIndexes = filtered.
SweepAssign ==
    /\ registry.pc["sweep"] = "assign"
    /\ allIndexes' = registry.filtered
    /\ registry' = [registry EXCEPT !.pc["sweep"] = "unlock",
                                    !.arr = Compacted(@, registry.filtered),
                                    !.filtered = <<>>]
    /\ UNCHANGED <<lockFrame, resources, stores, idSeed, dirs, docs, isNewUpdates, calls,
                   lastSweep>>

\* Do lines 265-271: isReadonly is still true, RUnlock().
SweepUnlock ==
    /\ registry.pc["sweep"] = "unlock"
    /\ registry' = [registry EXCEPT !.pc["sweep"] = "idle", !.readers["sweep"] = @ - 1]
    /\ UNCHANGED <<lockFrame, resources, stores, allIndexes, idSeed, dirs, docs,
                   isNewUpdates, calls, lastSweep>>

NextRegistry ==
    \/ \E p \in Indexers, t \in Times : IndexCall(p, t)
    \/ \E p \in Indexers : IndexEnter(p)
    \/ \E p \in Indexers : IndexLookup(p)
    \/ \E p \in Indexers : IndexSwitch(p)
    \/ \E p \in Indexers : IndexRecheck(p)
    \/ \E p \in Indexers : IndexUnlock(p)
    \/ TotalCall
    \/ TotalEnter
    \/ TotalAcquire
    \/ TotalLoad
    \/ \E id \in 1..(MaxTime + 1 + MaxCalls) : UpdaterLock(id)
    \/ \E id \in 1..(MaxTime + 1 + MaxCalls) : UpdaterRun(id)
    \/ SweepCall
    \/ SweepEnter
    \/ \E t \in {0, MaxNow - 1} : SweepLoop(t)
    \/ SweepAssign
    \/ SweepUnlock

\* NewEngine and Engine.Open over the data directory of an earlier run with
\* the same index duration that ended before the last period.
InitRegistry ==
    /\ InitPoolVars
    /\ InitProcVars
    /\ IndexDuration = ShortDuration
    /\ dirs = {d \in PriorDirs(ShortDuration) : d.startTime < MaxTime}
    /\ \E order \in Perms(dirs) : allIndexes = OpenLazyIndexes(order, 1, <<>>)
    /\ idSeed = Cardinality(dirs)
    /\ docs = {}
    /\ lastest = NoLease
    /\ isNewUpdates = {}
    /\ lastIndex = NoIndex
    /\ hung = FALSE
    /\ calls = 0
    /\ lastSweep = NoSweep
    /\ lastQuery = NoQuery
    /\ batcher = NewBatcher
    /\ metaStore = NewMetaStore
    /\ scheduler = NewService
    /\ input = NoInput
    /\ registry = [NoRegistry EXCEPT !.arr = allIndexes]

SpecRegistry == InitRegistry /\ [][NextRegistry]_vars


\* ------------------------------------------------- claims on the pool
Holders == {p \in Procs : held[p] # NoSlot}
OpenStores == {h \in Handles : stores[h].id # 0 /\ stores[h].open}

\* C3: the slots' reference counts add up to the number of leases handed
\* out by the pool and not yet closed, and no count is ever negative.
C3_RefCountsEqualLeases ==
    /\ SumRef(resources, NumCaches) = Cardinality(Holders)
    /\ \A s \in Slots :
         /\ resources[s].refCounter >= 0
         /\ resources[s].refCounter = Cardinality({p \in Procs : held[p] = s})

\* Two leases share one slot while the other slot, released, stays warm.
C3_Witness ==
    \E s, t \in Slots :
        /\ resources[s].refCounter = 2
        /\ resources[t].refCounter = 0 /\ resources[t].index # Nil
        /\ \E p \in Procs : pc[p] = "leased" /\ held[p] = s

\* C4: while a lease that Load returned is outstanding, the backing of its
\* slot is non-null and has not been closed.
C4_LeasedBackingOpen ==
    \A p \in Procs :
        (pc[p] = "leased" /\ resources[held[p]].refCounter > 0) =>
            /\ resources[held[p]].index # Nil
            /\ stores[resources[held[p]].index].open

\* C5: no backing is closed more than once (by Close() when its slot is
\* idle, otherwise by the final Release).
C5_ClosedAtMostOnce == \A h \in Handles : stores[h].closes <= 1

\* C6: a release that frees a slot wakes every waiter, so while the pool is
\* open no caller is parked in acquire when some slot has reference count 0.
C6_NoWaiterParkedWhileSlotFree ==
    \A p \in Procs :
        (pc[p] = "parked" /\ ctxOf[p] \notin cancelled /\ ~isClosed) =>
            \A s \in Slots : resources[s].refCounter # 0

\* C7, second and third part: once the children of a cancelled search have
\* finished, the reference counts are those of the leases other goroutines
\* hold, and with the pool open and no other lease out an acquire of any
\* descriptor gets a slot at once.
C7_NoLeak ==
    \A k \in cancelled :
        (\A p \in Procs : ctxOf[p] # k) =>
            /\ SumRef(resources, NumCaches) = Cardinality(Holders)
            /\ (Holders = {} /\ ~isClosed) =>
                 \A id \in Ids : TryAcquire(resources, isClosed, id, FALSE).kind = "acquired"

\* A child that was waiting for a slot when its context was cancelled never
\* gets a slot afterwards.
C7_WaitersAcquireNothing == \A p \in Procs : wasWaiting[p] => held[p] = NoSlot

\* C7 as claimed: every child waiting at the cancel returns a cancellation
\* error, nothing leaks, later searches acquire normally.
C7_CancelledWaitersReturnCancellation ==
    /\ cancelErrs \subseteq {"cancelled"}
    /\ C7_WaitersAcquireNothing
    /\ C7_NoLeak

\* C7 as amended: a waiting child returns a cancellation error, or the
\* pool-closed error when the pool is closed before the child has seen the
\* cancellation.
C7_CancelledWaitersReturnError ==
    /\ cancelErrs \subseteq {"cancelled", "closed"}
    /\ ("closed" \in cancelErrs => isClosed)
    /\ C7_WaitersAcquireNothing
    /\ C7_NoLeak

\* The first search was cancelled while a child waited and has finished; a
\* child of the next search holds a lease.
C7_Witness ==
    /\ 1 \in cancelled
    /\ "cancelled" \in cancelErrs
    /\ \A p \in Procs : ctxOf[p] # 1
    /\ \E p \in Procs : ctxOf[p] = 2 /\ pc[p] = "leased"

\* C8: at most num-caches partition stores are open at the same time.
C8_OpenStoresBounded == Cardinality(OpenStores) <= NumCaches

\* Both slots hold an open store, one of them after a rebind.
C8_Witness ==
    /\ Cardinality(OpenStores) = NumCaches
    /\ \E s \in Slots : resources[s].index \in OpenStores /\ resources[s].index > NumCaches


\* ------------------------------------- claims on the registry and Index
\* The positions of the descriptors of the registry that contain t.
Containing(t) == {i \in 1..Len(allIndexes) : Contains(allIndexes[i], t)}

\* C1: after Engine.Index of a batch of one event e has returned without
\* error, exactly one descriptor of the registry contains e's reference
\* time, and e is among the documents of that partition's store.
C1_SingleEventInExactlyOnePartition ==
    (Len(lastIndex.events) = 1 /\ lastIndex.errs = 0) =>
        LET t == lastIndex.events[1] IN
        /\ Cardinality(Containing(t)) = 1
        /\ \A i \in Containing(t) :
              [startTime |-> allIndexes[i].startTime,
               endTime |-> allIndexes[i].endTime, t |-> t] \in docs

\* C2: every document of a partition store has its reference time inside
\* the partition's range (start inclusive, end exclusive).
C2_DocsInsideTheirPartition ==
    \A d \in docs : (d.t = d.startTime \/ d.t > d.startTime) /\ d.t < d.endTime

\* C9: the ranges of the descriptors of the registry are pairwise disjoint.
C9_PartitionsDisjoint ==
    \A i, j \in 1..Len(allIndexes) :
        i # j => \/ allIndexes[i].endTime <= allIndexes[j].startTime
                 \/ allIndexes[j].endTime <= allIndexes[i].startTime

\* C10: no two descriptors of the registry have the same start time.
C10_StartTimesDistinct ==
    \A i, j \in 1..Len(allIndexes) :
        i # j => allIndexes[i].startTime # allIndexes[j].startTime


\* -------------------------------------------------- claims on retention
\* C11: the registry is sorted by end time descending and, for equal end
\* times, by start time descending.
C11_RegistrySorted ==
    \A i \in 1..(Len(allIndexes) - 1) :
        \/ allIndexes[i].endTime > allIndexes[i + 1].endTime
        \/ /\ allIndexes[i].endTime = allIndexes[i + 1].endTime
           /\ allIndexes[i].startTime >= allIndexes[i + 1].startTime

\* C16: a retention sweep removes no descriptor on which a lease is held.
C16_SweepSkipsLeased == \A g \in lastSweep.gone : ~g.leased

\* The descriptor at position i of the registry is gone after the step.
GoneAfter(i) == \A j \in 1..Len(allIndexes') : allIndexes'[j].id # allIndexes[i].id

\* The directory of the descriptor at position i is absent after the step.
DirAbsentAfter(i) == \A d \in dirs' : d.startTime # allIndexes[i].startTime

\* The step is a retention sweep.
IsSweep == lastSweep'.n # lastSweep.n

\* C17 as claimed: a sweep at now >= p.end + retention-period removes the
\* unleased partition p from the registry and its directory from the disk.
C17_ExpiredRemovedAtPeriod ==
    [][IsSweep =>
         \A i \in 1..Len(allIndexes) :
             (/\ lastSweep'.now >= allIndexes[i].endTime + RetentionPeriod
              /\ i \notin Leased(allIndexes, resources))
                 => GoneAfter(i) /\ DirAbsentAfter(i)]_vars

\* C17 as amended: a sweep at now > p.end + retention-period removes the
\* unleased partition p from the registry, and its directory from the disk
\* unless deleting it failed.
C17_ExpiredRemovedAfterPeriod ==
    [][IsSweep =>
         \A i \in 1..Len(allIndexes) :
             (/\ lastSweep'.now > allIndexes[i].endTime + RetentionPeriod
              /\ i \notin Leased(allIndexes, resources))
                 => /\ GoneAfter(i)
                    /\ allIndexes[i].startTime \notin lastSweep'.failed
                          => DirAbsentAfter(i)]_vars

\* A sweep has removed an unleased partition that had documents, and left
\* another partition in place.
C17_Witness ==
    /\ lastSweep.n > 0
    /\ lastSweep.failed = {}
    /\ \E g \in lastSweep.gone :
          /\ ~g.leased
          /\ \A d \in dirs : d.startTime # g.startTime
          /\ \A i \in 1..Len(allIndexes) : allIndexes[i].startTime # g.startTime
    /\ Len(allIndexes) > 0
    /\ dirs # {}

\* ---------------------------------------------------- claims on queries
\* The range [p.startTime, p.endTime) meets [s, e], a zero bound being
\* unbounded on its side.
Intersects(p, s, e) == (s = Zero \/ s < p.endTime) /\ (e = Zero \/ ~(e < p.startTime))

\* C12: GetIndexes(s, e), for s <= e or a zero bound, returns exactly the
\* descriptors of the registry whose [start, end) intersects [s, e].
C12_SelectRangeExact ==
    (/\ lastQuery.op = "GetIndexes"
     /\ (lastQuery.startTime = Zero \/ lastQuery.endTime = Zero
            \/ lastQuery.startTime <= lastQuery.endTime)) =>
        lastQuery.indexes =
            Kept(allIndexes,
                 {k \in 1..Len(allIndexes) :
                     Intersects(allIndexes[k], lastQuery.startTime, lastQuery.endTime)}, 1)

\* The n best matches of partition p.
Top(p, st, n) ==
    [k \in 1..(IF Len(st) < n THEN Len(st) ELSE n) |-> [part |-> p, n |-> k, score |-> st[k]]]

RECURSIVE Tops(_, _, _)
Tops(parts, n, p) ==
    IF p > Len(parts) THEN <<>> ELSE Top(p, parts[p], n) \o Tops(parts, n, p + 1)

\* hits without its first n, and the first n of hits.
Drop(hits, n) == IF Len(hits) > n THEN SubSeq(hits, n + 1, Len(hits)) ELSE <<>>
Take(hits, n) == IF Len(hits) > n THEN SubSeq(hits, 1, n) ELSE hits

\* C13: the result of a search with From = F and Size = Z is the top-(F+Z)
\* hits of every partition, concatenated, sorted, the first F dropped, cut to Z;
\* there are no hits when F is at least the number of merged hits.
C13_PagedMerge ==
    lastQuery.op = "MultiSearch" =>
        LET F == lastQuery.req.From
            Z == lastQuery.req.Size
            all == Tops(lastQuery.parts, F + Z, 1) IN
        /\ \E f \in Perms(1..Len(all)) :
              LET merged == [i \in 1..Len(all) |-> all[f[i]]] IN
              Sorted(merged) /\ lastQuery.Hits = Take(Drop(merged, F), Z)
        /\ F >= Len(all) => lastQuery.Hits = <<>>

\* The same for a request with a positive Size.
C13_PagedMergePositiveSize ==
    (lastQuery.op = "MultiSearch" /\ lastQuery.req.Size > 0) => C13_PagedMerge

\* The instant t lies in [s, e], a zero bound being open.
Inside(t, s, e) == (s = Zero \/ t >= s) /\ (e = Zero \/ t <= e)

C15_ErrorsAggregated ==
    lastIndex.events # <<>> =>
        /\ lastIndex.wrote \subseteq lastIndex.sub
        /\ lastIndex.errs = Cardinality(lastIndex.sub \ lastIndex.wrote)
        /\ lastIndex.errs = 0 <=> lastIndex.wrote = lastIndex.sub

\* A call over two partitions where one sub-batch failed and the other was written.
C15_Witness ==
    /\ Cardinality(lastIndex.sub) = 2
    /\ Cardinality(lastIndex.wrote) = 1
    /\ lastIndex.errs = 1

\* A call over two partitions where both sub-batches failed.
C15_WitnessBoth ==
    /\ Cardinality(lastIndex.sub) = 2
    /\ lastIndex.wrote = {}
    /\ lastIndex.errs = 2

\* ------------------------------------------------- claims on the batcher
\* C18: every event accepted on the inbound channel is eventually handed to
\* the indexing core, by the size-triggered or the timer-triggered flush (what
\* happens once Stop has closed the channel is the matter of C20).
C18_AcceptedEventuallyHanded ==
    \A e \in 1..MaxEvents :
        (batcher.accepted >= e) ~> (e \in batcher.handed \/ batcher.closed)

\* C19: every flush that returns resets the buffer, and a flush whose Index
\* call failed sends the error on the error channel when there is one.
C19_FlushResetsAndReports ==
    [][(batcher'.flushes = batcher.flushes + 1 /\ ~batcher'.panicked) =>
          /\ batcher'.batch = <<>>
          /\ (batcher'.lastErr /\ batcher.errChan) =>
                batcher'.sent = Append(batcher.sent, "err")]_vars

\* C20: after Stop the goroutine drains the channel, flushes what is queued
\* and buffered, releases the pinned lease and terminates.
C20_StopDrainsAndTerminates ==
    batcher.closed ~>
        (/\ batcher.started => ~batcher.running
         /\ ~batcher.panicked
         /\ ~batcher.pinned
         /\ batcher.c = <<>>
         /\ batcher.batch = <<>>
         /\ 1..batcher.accepted \subseteq batcher.handed)


\* ------------------------------------------- claims on continuous queries
\* The boundaries after lastAt, as it was when the tick was received, that
\* are in due.
DueAt(due) ==
    {b \in due : b > scheduler.tickLastAt
                   /\ (b - scheduler.tickLastAt) % scheduler.runInterval = 0}

\* Back in the select after a tick, exactly the boundaries of due were run
\* since the tick, each once, in increasing order, each over the window from
\* the boundary before it, and lastAt is the last of them.
TickRan(due) ==
    (scheduler.pc = "select" /\ scheduler.ticked) =>
        LET n == Cardinality(DueAt(due)) IN
        /\ Len(scheduler.windows) = scheduler.tickFrom + n
        /\ \A k \in 1..n :
             scheduler.windows[scheduler.tickFrom + k] =
                 [startAt |-> scheduler.tickLastAt + (k - 1) * scheduler.runInterval,
                  endAt |-> scheduler.tickLastAt + k * scheduler.runInterval,
                  now |-> scheduler.now]
        /\ scheduler.lastAt = scheduler.tickLastAt + n * scheduler.runInterval

\* The windows run so far tile the time from the first lastAt on.
Tiled ==
    /\ scheduler.windows # <<>> => scheduler.windows[1].startAt = scheduler.alignedAt
    /\ \A i \in 1..Len(scheduler.windows) :
         /\ scheduler.windows[i].endAt = scheduler.windows[i].startAt + scheduler.runInterval
         /\ i > 1 => scheduler.windows[i].startAt = scheduler.windows[i - 1].endAt

\* C21 as stated: on each tick the scheduler runs, in increasing order and
\* exactly once each, every boundary b with lastAt < b <= now over the window
\* [lastAt, b), then sets lastAt = b; the windows tile time.
C21_EveryBoundaryUpToNow ==
    TickRan(0..scheduler.now) /\ Tiled

\* C21, amended: on each tick the scheduler runs, in increasing order and
\* exactly once each, every boundary b with lastAt < b < now, strictly before
\* the time of the tick, over the window [lastAt, b), then sets lastAt = b;
\* the windows tile time without gap or overlap.
C21_EveryBoundaryBeforeNow ==
    TickRan(0..(scheduler.now - 1)) /\ Tiled

\* A tick has caught up with two boundaries and left the one equal to its
\* time for the next tick.
C21_Witness ==
    /\ scheduler.pc = "select"
    /\ scheduler.ticked
    /\ Len(scheduler.windows) >= scheduler.tickFrom + 2
    /\ scheduler.lastAt + scheduler.runInterval = scheduler.now

\* C22 as stated: when RunLoop starts lastAt is the most recent multiple of
\* the run interval not after now, and lastAt <= now at every later point.
C22_AlignedDownNeverAhead ==
    scheduler.pc # "new" =>
        /\ scheduler.alignedAt % scheduler.runInterval = 0
        /\ scheduler.alignedAt <= scheduler.startedAt
        /\ scheduler.startedAt < scheduler.alignedAt + scheduler.runInterval
        /\ scheduler.lastAt <= scheduler.clock

\* C22, amended: when RunLoop starts lastAt is the first multiple of the run
\* interval not before now; lastAt stays a multiple of the interval; and from
\* the first tick received on, lastAt is before the time of the last tick
\* received, so not after now.
C22_AlignedUpBehindTicks ==
    scheduler.pc # "new" =>
        /\ scheduler.alignedAt % scheduler.runInterval = 0
        /\ scheduler.startedAt <= scheduler.alignedAt
        /\ scheduler.alignedAt < scheduler.startedAt + scheduler.runInterval
        /\ scheduler.lastAt % scheduler.runInterval = 0
        /\ scheduler.ticked =>
             /\ scheduler.lastAt < scheduler.now
             /\ scheduler.now <= scheduler.clock

\* RunLoop began between two boundaries and has run a window since.
C22_Witness ==
    /\ scheduler.startedAt % scheduler.runInterval # 0
    /\ scheduler.ticked
    /\ scheduler.windows # <<>>
    /\ scheduler.lastAt > scheduler.alignedAt

\* C23: each child evaluation covers exactly the events received in the
\* half-open window [startTime, endTime), so that an event received at a
\* boundary is evaluated in exactly one window by each continuous query.
C23_HalfOpenWindows ==
    \A i \in 1..Len(scheduler.evals) :
        LET ev == scheduler.evals[i] IN
        ev.err = "nil" =>
            /\ ev.hits = {d \in docs : ev.startTime <= d.t /\ d.t < ev.endTime}
            /\ \A j \in 1..Len(scheduler.evals) :
                 (scheduler.evals[j].key = ev.key /\ scheduler.evals[j].hits \cap ev.hits # {})
                     => scheduler.evals[j].startTime = ev.startTime

\* The child evaluations begun while the stop channel was closed.
BegunStopped == {i \in 1..Len(scheduler.evals) : scheduler.evals[i].stop}

\* Once the stop channel is closed RunLoop returns.
StopReturns == scheduler.stop ~> (scheduler.pc = "returned")

\* C24: once stop is raised no further child evaluation begins after the one
\* in progress (of the evaluations, at most the one under way when the
\* channel was closed finds it closed), and the loop returns.
C24_StopEndsEvaluations ==
    [](Cardinality(BegunStopped) <= 1) /\ StopReturns

\* C25: the callback chain of a continuous query is built from the target
\* factories once, at first use, and reused afterwards: once an evaluation
\* has built the chain, no later evaluation of the same continuous query
\* calls a factory.
C25_ChainBuiltOnce ==
    \A i, j \in 1..Len(scheduler.evals) :
        (/\ i < j
         /\ scheduler.evals[i].key = scheduler.evals[j].key
         /\ scheduler.evals[i].err # "unsupported")
            => scheduler.evals[j].made = 0

\* ----------------------------------------------------- claims on group by
\* C26: for start < end and step > 0 the date ranges of group-by-time are
\* buckets [t, t + step) that follow one another from start and together
\* cover every instant from start up to end.
C26_BucketsCoverRange ==
    (lastQuery.op = "GroupByTime" /\ lastQuery.startTime < lastQuery.endTime) =>
        /\ \A f \in lastQuery.facets :
             /\ f.end = f.start + lastQuery.step
             /\ f.start >= lastQuery.startTime
             /\ (f.start - lastQuery.startTime) % lastQuery.step = 0
        /\ \A t \in lastQuery.startTime..(lastQuery.endTime - 1) :
             \E f \in lastQuery.facets : f.start <= t /\ t < f.end

\* C27: for start < end and step > 0 the numeric ranges of
\* group-by-numeric-range are, in ascending order and each beginning where
\* the one before ends: a first one without lower bound up to start + step,
\* closed-open ones [min, min + step), and a last one from end - step without
\* upper bound.
C27_NumericBuckets ==
    (lastQuery.op = "GroupByNumeric" /\ lastQuery.start < lastQuery.end) =>
        LET f == lastQuery.facets
            n == Len(lastQuery.facets) IN
        /\ n >= 2
        /\ ~f[1].hasMin /\ f[1].hasMax /\ f[1].max = lastQuery.start + lastQuery.step
        /\ f[n].hasMin /\ ~f[n].hasMax /\ f[n].min = lastQuery.end - lastQuery.step
        /\ \A k \in 2..(n - 1) :
             f[k].hasMin /\ f[k].hasMax /\ f[k].max = f[k].min + lastQuery.step
        /\ \A k \in 2..n : f[k].min = f[k - 1].max

\* The request of the last group-by selected no partition.
NoneSelected ==
    /\ lastQuery.op \in {"GroupBy", "GroupByNumeric", "GroupByTime"}
    /\ getIndexs(allIndexes, lastQuery.startTime, lastQuery.endTime) = <<>>

C28_WitnessTerm ==
    /\ NoneSelected
    /\ lastQuery.op = "GroupBy"

\* ------------------------------------------------ claims on the meta store
\* C29: after any sequence of create, update and delete operations on the
\* saved queries and their continuous queries, no two stored queries have the
\* same name.
C29_NamesUnique ==
    \A i, j \in DOMAIN metaStore.queries :
        i # j => metaStore.queries[i].Name # metaStore.queries[j].Name

\* ------------------------------------------------ claims on document ids
\* The string a sorts before the string b of the same length.
LexLess(a, b) ==
    \E k \in 1..Len(a) : a[k] < b[k] /\ \A l \in 1..(k - 1) : a[l] = b[l]

\* The pair (reference time, sequence) of x is before that of y.
PairLess(x, y) == x.t < y.t \/ (x.t = y.t /\ x.seq < y.seq)

\* C30: the document ids of any two events compare lexicographically in the
\* same order as their (reference time, sequence) pairs.
C30_IdOrderIsPairOrder ==
    \A i, j \in 1..Len(input.ids) :
        LexLess(input.ids[i].id, input.ids[j].id) <=> PairLess(input.ids[i], input.ids[j])

\* C30 for events from the epoch on with sequences that are not negative.
C30_FromEpochOn ==
    \A i, j \in 1..Len(input.ids) :
        (/\ input.ids[i].t >= 0 /\ input.ids[i].seq >= 0
         /\ input.ids[j].t >= 0 /\ input.ids[j].seq >= 0)
            => (LexLess(input.ids[i].id, input.ids[j].id)
                    <=> PairLess(input.ids[i], input.ids[j]))

\* ------------------------------------------------- claims on Engine.Total
\* The events of the last Index call before Total are pairwise different and
\* none of them was stored before the call.
NewEvents(li) ==
    /\ \A i, j \in 1..Len(li.events) : i # j => li.events[i] # li.events[j]
    /\ \A i \in 1..Len(li.events) : \A d \in li.before : d.t # li.events[i]

\* C31: Total() called after an index() of n new events that returned
\* success returns, without error, the number of documents stored before
\* that call plus n, the sum of the counts of all partitions.
C31_TotalAfterIndex ==
    (/\ lastQuery.op = "Total"
     /\ lastQuery.failAt = 0
     /\ lastQuery.after.events # <<>>
     /\ lastQuery.after.errs = 0
     /\ NewEvents(lastQuery.after))
        => /\ lastQuery.returned
           /\ lastQuery.err = 0
           /\ lastQuery.total = Cardinality(lastQuery.after.before)
                                    + Len(lastQuery.after.events)

\* C31 for the calls of Total that return.
C31_TotalWhenReturned ==
    (/\ lastQuery.op = "Total"
     /\ lastQuery.returned
     /\ lastQuery.failAt = 0
     /\ lastQuery.after.events # <<>>
     /\ lastQuery.after.errs = 0
     /\ NewEvents(lastQuery.after))
        => /\ lastQuery.err = 0
           /\ lastQuery.total = Cardinality(lastQuery.after.before)
                                    + Len(lastQuery.after.events)

\* --------------------------------------------- claims on the failed rebind
\* Load of goroutine p returns an error in this step: it held slot `held[p]`
\* at the rebind and its goroutine ends.
LoadFails(p) == pc[p] = "bind" /\ pc'[p] = "idle"

\* C32: when closing the old store or opening the new one fails in Load, the
\* caller gets the error and no lease, and the reference count of the slot
\* went down by exactly one; when that frees the slot of an open pool while
\* goroutines are blocked in the select of TryAcquire, one of them is woken.
C32_FailedRebindReleasesOnce ==
    [][\A p \in Procs :
          LoadFails(p) =>
              /\ lease'[p] = Nil
              /\ held'[p] = NoSlot
              /\ resources'[held[p]].refCounter = resources[held[p]].refCounter - 1
              /\ (/\ resources'[held[p]].refCounter = 0
                  /\ ~isClosed
                  /\ Parked(pc) # {}) => \E q \in Parked(pc) : pc'[q] = "woken"]_vars

\* A failed close left slot s free with the store of another descriptor
\* still bound to it, and a waiter has been woken.
C32_Witness ==
    \E s \in Slots :
        /\ resources[s].refCounter = 0
        /\ resources[s].index # Nil
        /\ stores[resources[s].index].open
        /\ stores[resources[s].index].id # resources[s].id
        /\ \E q \in Procs : pc[q] = "woken"

\* ------------------------------------------- claims on the woken waiter
\* C33: at no time are two slots with nonzero reference counts bound to the
\* same descriptor id.
C33_OneSlotPerDescriptor ==
    \A s, t \in Slots :
        (/\ s # t
         /\ resources[s].refCounter > 0
         /\ resources[t].refCounter > 0) => resources[s].id # resources[t].id

\* ------------------------------------------------- claims on loader.mu
\* C34: the retention sweep reads and replaces the descriptor list of the
\* registry only while it holds the write lock of the registry.
C34_SweepHoldsWriteLock ==
    registry.pc["sweep"] \in {"loop", "assign"} => registry.writer = "sweep"

\* The sweep does hold the lock in read mode while it works on the list.
C34_SweepHoldsReadLock ==
    registry.pc["sweep"] \in {"loop", "assign"} => registry.readers["sweep"] = 1

\* C35: before any sweep, two calls of Engine.Index whose events fall into
\* the same period do not both create a descriptor: the one that gets the
\* write lock second finds the descriptor of the first.
C35_OneDescriptorPerPeriod ==
    (/\ registry.sweeps = 0
     /\ registry.made["index1"] # 0
     /\ registry.made["index2"] # 0)
        => Truncate(registry.t["index1"], IndexDuration)
               # Truncate(registry.t["index2"], IndexDuration)

\* Both callers found no descriptor for the same period under the read lock
\* and upgraded; both are done and one descriptor contains the time.
C35_Witness ==
    /\ registry.sweeps = 0
    /\ \A p \in Indexers : registry.pc[p] = "idle" /\ registry.switched[p]
    /\ registry.t["index1"] = registry.t["index2"]
    /\ Cardinality({p \in Indexers : registry.made[p] # 0}) = 1
    /\ Cardinality({i \in 1..Len(allIndexes) :
                       Contains(allIndexes[i], registry.t["index1"])}) = 1

\* Goroutine p waits in RLock behind a pending Lock, and that Lock waits
\* for the read lock p holds.
Deadlock(p) ==
    /\ registry.pc[p] \in {"do.rlock", "load.rlock"}
    /\ registry.readers[p] > 0
    /\ registry.writer = ""
    /\ registry.waiting # {} \/ registry.updating # {}

\* C38: Total, Index and the retention sweep never deadlock on the
\* registry lock: no goroutine that holds the read lock waits for it again
\* behind a writer.
C38_NoDeadlock == \A p \in Tasks : ~Deadlock(p)

\* --------------------------------------------- claims on the fan-out
\* MultiSearch call k has returned: every child has called waitGroup.Done(),
\* so asyncResults was closed and the loop over the results has ended.
Returned(k) ==
    /\ k \in 1..searchSeq
    /\ \A p \in Procs : ctxOf[p] = k => pc[p] = "closing"

\* C36: when MultiSearch has returned, all of its per-partition goroutines
\* have finished and none of them still holds a lease.
C36_FanOutReturnsAfterRelease ==
    \A k \in 1..MaxSearches :
        Returned(k) => \A p \in Procs : ctxOf[p] = k => held[p] = NoSlot

\* ------------------------------------------ claims on the continuation
\* C37: the continuation holds at most one lease and drops none without
\* releasing it: every raised reference count of the pool is the one lease
\* ctx.lastest points to.
C37_ContinuationHoldsItsOnlyLease ==
    ~hung =>
        /\ SumRef(resources, NumCaches) = IF lastest = NoLease THEN 0 ELSE 1
        /\ lastest # NoLease => resources[lastest.r].refCounter = 1

\* ------------------------------------------ claims on what a sweep deletes
\* C39: a retention sweep deletes the directories of expired partitions
\* only: every directory that is gone after the sweep was that of a
\* descriptor that had expired at the time of the sweep.
C39_SweepDeletesExpiredOnly ==
    [][lastSweep'.n = lastSweep.n + 1 =>
          \A d \in dirs \ dirs' :
              \E i \in 1..Len(allIndexes) :
                  /\ Expired(allIndexes[i], lastSweep'.now, RetentionPeriod)
                  /\ allIndexes[i].startTime = d.startTime]_vars

\* C39 for the sweeps in which every expired descriptor has been loaded and
\* has its own directory as path.
C39_LoadedExpiredOnly ==
    [][(/\ lastSweep'.n = lastSweep.n + 1
        /\ \A i \in 1..Len(allIndexes) :
              Expired(allIndexes[i], lastSweep'.now, RetentionPeriod)
                  => ~allIndexes[i].isNew) =>
          \A d \in dirs \ dirs' :
              \E i \in 1..Len(allIndexes) :
                  /\ Expired(allIndexes[i], lastSweep'.now, RetentionPeriod)
                  /\ allIndexes[i].startTime = d.startTime]_vars

\* ------------------------------------------- claims on the facet loops
FacetStarted == lastQuery # NoQuery /\ lastQuery.op \in {"facetByNumericRange", "facetByTime"}

FacetDone == FacetStarted /\ lastQuery.done

\* C40: for every start, end and step, zero and negative steps and an end
\* that is not after the start included, the loop that builds the facet
\* buckets ends and the function returns its bucket list.
C40_FacetLoopsTerminate == FacetStarted ~> FacetDone

\* C40 for the steps above zero.
C40_PositiveStepTerminates == (FacetStarted /\ lastQuery.step > 0) ~> FacetDone

\* C40 for the numeric ranges with a step that is not zero: a step below
\* zero ends the loop when the int64 sum has wrapped around.
C40_NonZeroNumericStepTerminates ==
    (FacetStarted /\ lastQuery.op = "facetByNumericRange" /\ lastQuery.step # 0)
        ~> FacetDone

====
